---- MODULE Spec2Model ----
(***************************************************************************)
(* The task orchestration engine of Evoco: the pipeline driver run_task    *)
(* (backend/orchestrator/pipeline.py), the DAG scheduler DAGExecutor       *)
(* (backend/orchestrator/dag.py), the cancel endpoint                      *)
(* (backend/routers/tasks.py) and the event callbacks                      *)
(* (backend/routers/ws.py).                                                *)
(*                                                                         *)
(* run_task and DAGExecutor.execute are coroutines on one event loop: the  *)
(* code between two awaits runs atomically.  A control position pc names   *)
(* the place the driver is at; the other coroutines (step workers, the     *)
(* cancel handler) run only while the driver is suspended (Yields).        *)
(***************************************************************************)
EXTENDS Integers, Sequences, FiniteSets, TLC

\* Largest number of steps of a plan, and of dependencies of one step.
MaxSteps == 3
MaxDeps == 2

\* A depends_on entry that is the id of no step of the plan: _steps_from_raw
\* keeps a string reference verbatim.  Step ids are 1..Len(plan).
Unresolved == 0

\* How the command was submitted: POST /api/tasks (background run),
\* POST /api/tasks/sync, or the /api/ws socket.
Modes == {"async", "sync", "ws"}

\* task.status takes the values queued, planning, executing, replanning,
\* completed, partial, failed and cancelled (pipeline.py 85, 113, 130, 171-175,
\* 209; tasks.py 83).  The terminal ones:
Terminal == {"completed", "partial", "failed", "cancelled"}

VARIABLES
    mode,         \* submission mode
    pc,           \* control position of run_task / DAGExecutor.execute
    status,       \* task.status
    error,        \* task.error
    plan,         \* plan.steps: step id -> depends_on
    stepStatus,   \* step.status
    stepError,    \* step.error
    started_at,   \* step.started_at (0: None)
    finished_at,  \* step.finished_at (0: None)
    pending,      \* DAGExecutor._pending
    completed,    \* keys of DAGExecutor._completed
    failed_ids,   \* DAGExecutor._failed_ids
    running,      \* keys of the local dict running
    worker,       \* position of the asyncio task of _run_step(step)
    done,         \* finished tasks returned by asyncio.wait, not yet handled
    caller,       \* which call of dag.execute() is running (1: line 118, 2: line 164)
    summary,      \* the dict returned by the last execute()
    firstSummary, \* the dict returned by the execute() of line 118
    clock,        \* datetime.now(): advances when a step finishes
    lastEvent,    \* the last event passed to on_event
    stepEvents,   \* per step: the step events passed to on_event
    doneEmitted,  \* number of task_done events passed to on_event
    doneObserved, \* number of task_done events delivered to the task's subscriber
    replans,      \* number of calls of replan()
    executions,   \* number of DAGExecutor.execute() calls
    shutdowns,    \* number of pool.shutdown() calls
    raisedInTry   \* an exception was raised inside the try block of run_task

\* The Planner Adapter (backend/services/planner.py).
VARIABLES
    raw,          \* the list of step descriptors returned by the planner model
    plannerOp,    \* the operation that ingested it: create_plan or replan
    steps,        \* the list of TaskStep built by _steps_from_raw
    plannerError  \* the exception _steps_from_raw raised

pipelineVars == <<mode, pc, status, error, plan, stepStatus, stepError, started_at,
          finished_at, pending, completed, failed_ids, running, worker, done,
          caller, summary, firstSummary, clock, lastEvent, stepEvents,
          doneEmitted, doneObserved, replans, executions, shutdowns,
          raisedInTry>>

plannerVars == <<raw, plannerOp, steps, plannerError>>

\* A CircuitBreaker (backend/services/circuit_breaker.py) and its callers.
VARIABLES
    failure_threshold, \* constructor argument
    recovery_timeout,  \* constructor argument, in seconds
    half_open_max,     \* constructor argument
    cbState,           \* self._state
    failure_count,     \* self._failure_count
    success_count,     \* self._success_count
    last_failure_time, \* self._last_failure_time
    permits,           \* self._half_open_semaphore._value
    now,               \* time.monotonic(), in seconds
    cbCaller,          \* where each coroutine that uses the breaker is
    streak,            \* failures recorded since the breaker was last closed
                       \* with its failure counter at 0
    lastOp             \* the last entry or exit of a caller, with the state
                       \* and the failure counter it found

breakerVars == <<failure_threshold, recovery_timeout, half_open_max, cbState,
                 failure_count, success_count, last_failure_time, permits, now,
                 cbCaller, streak, lastOp>>

\* One call of execute_step (backend/services/executor.py).
VARIABLES
    stepExecutor,        \* step.executor
    has_aws_credentials, \* settings.has_aws_credentials
    has_nova_act_key,    \* settings.has_nova_act_key
    max_retries,         \* step.max_retries
    attempt,             \* the loop variable of line 222
    exPc,                \* where the coroutine is: call (awaiting the backend),
                         \* sleep (awaiting the backoff), returned, cancelled
    outcomes,            \* what each attempt so far ended with
    sleeps,              \* the waits passed to asyncio.sleep at line 266
    retries,             \* step.retries
    last_error,          \* the local last_error
    result               \* the value execute_step returned

executorVars == <<stepExecutor, has_aws_credentials, has_nova_act_key,
                  max_retries, attempt, exPc, outcomes, sleeps, retries,
                  last_error, result>>

\* One BrowserPool (backend/services/browser_pool.py), the coroutines that
\* acquire and release its sessions, and the browser steps that run with it.
VARIABLES
    poolMax,        \* self._max
    semaphore,      \* self._semaphore._value
    locks,          \* the keys of self._locks
    lockOwner,      \* per domain: the coroutine inside "async with lock" (0: free)
    sessions,       \* self._sessions (0: no entry for the domain)
    active_count,   \* self._active_count
    instances,      \* number of NovaAct instances constructed so far
    closedSessions, \* the instances whose __exit__ was called
    poolCaller,     \* where each coroutine that uses the pool is
    shutPc,         \* where shutdown() is
    shutTodo,       \* the sessions shutdown() has still to close
    poolShutdowns,  \* number of shutdown() calls that returned
    stepAgent       \* per browser step: the instance it is running on (0: none)

poolVars == <<poolMax, semaphore, locks, lockOwner, sessions, active_count,
              instances, closedSessions, poolCaller, shutPc, shutTodo,
              poolShutdowns, stepAgent>>

\* The event fan-out of routers/ws.py: ConnectionManager.broadcast and the
\* callback _broadcast, the producer that publishes through them, and the
\* WebSocket connections of the subscribers.
VARIABLES
    bcVia,      \* which function the producer publishes through
    conns,      \* manager._connections[task_id]; the socket of _broadcast
    bcPc,       \* where the producer is: idle, or sending (in await ws.send_text)
    bcIdx,      \* the position of the loop "for ws in conns"
    dead,       \* the local list dead
    published,  \* number of events the producer has published
    sockBuffer, \* per connection: the events sent and not yet read by the client
    received,   \* per connection: the events the client has read
    sockClosed  \* the connections whose client has gone: send_text raises

broadcastVars == <<bcVia, conns, bcPc, bcIdx, dead, published, sockBuffer,
                   received, sockClosed>>

\* One TaskStore (backend/services/task_store.py).
VARIABLES
    storeBackend, \* which backend the store uses: memory or redis
    timeline,     \* _InMemoryBackend._timeline: (timestamp, task_id), newest first
    zset,         \* the Redis sorted set tasks:timeline: (score, member)
    wallClock,    \* time.time()
    created,      \* the ids of the tasks made by new_task, in creation order
    listLimit,    \* the argument of the last list_tasks call (-1: none since
                  \* the last new_task)
    listed        \* the ids of the tasks that call returned

storeVars == <<storeBackend, timeline, zset, wallClock, created, listLimit, listed>>

\* The rate limiter (backend/middleware/rate_limit.py).  Times are in tenths
\* of a second, tokens in units of 1/600 token, so that a rate of one token
\* per minute is one unit per tenth of a second.
VARIABLES
    monotonic,     \* time.monotonic()
    buckets,       \* RateLimitMiddleware._buckets: client ip -> bucket (0: none)
    bucketObjs,    \* the TokenBucket objects made so far: tokens, last_refill
    last_cleanup,  \* RateLimitMiddleware._last_cleanup
    requests,      \* the requests in dispatch: position, path, bucket, response
    served         \* the decisions of the limiter, in order: client, time, admitted

limiterVars == <<monotonic, buckets, bucketObjs, last_cleanup, requests, served>>

vars == <<pipelineVars, plannerVars, breakerVars, executorVars, poolVars, broadcastVars, storeVars, limiterVars>>

\* What the steps of run_task, of the scheduler and of the cancel endpoint
\* leave alone, and what the steps of the Planner Adapter leave alone.
outsidePipeline == <<plannerVars, breakerVars, executorVars, poolVars, broadcastVars, storeVars, limiterVars>>
outsidePlanner == <<pipelineVars, breakerVars, executorVars, poolVars, broadcastVars, storeVars, limiterVars>>
outsideBreaker == <<pipelineVars, plannerVars, executorVars, poolVars, broadcastVars, storeVars, limiterVars>>
outsideExecutor == <<pipelineVars, plannerVars, breakerVars, poolVars, broadcastVars, storeVars, limiterVars>>
outsidePool == <<pipelineVars, plannerVars, breakerVars, executorVars, broadcastVars, storeVars, limiterVars>>
outsideBroadcast == <<pipelineVars, plannerVars, breakerVars, executorVars, poolVars, storeVars, limiterVars>>
outsideStore == <<pipelineVars, plannerVars, breakerVars, executorVars, poolVars, broadcastVars, limiterVars>>
outsideLimiter == <<pipelineVars, plannerVars, breakerVars, executorVars, poolVars, broadcastVars, storeVars>>

dagVars == <<pending, completed, failed_ids, running, done>>
stepVars == <<stepStatus, stepError, started_at, finished_at, stepEvents>>
eventVars == <<lastEvent, doneEmitted, doneObserved>>

----------------------------------------------------------------------------
\* Plans the Planner Adapter can install.

\* The depends_on lists _steps_from_raw can produce for a plan of n steps:
\* an integer index in range becomes that step's id (its own or a later
\* step's included), a string is kept as it is, anything else is dropped.
DepSets(n) == {d \in SUBSET ({Unresolved} \cup (1..n)) : Cardinality(d) <= MaxDeps}

\* Step ids are random (uuid4), so a plan is listed once for all the ways of
\* naming its steps: the steps are numbered by increasing number of
\* dependencies.
Canonical(p) ==
    \A i \in DOMAIN p : \A j \in DOMAIN p :
        i < j => Cardinality(p[i]) <= Cardinality(p[j])

Plans == UNION {{p \in [1..n -> DepSets(n)] : Canonical(p)} : n \in 0..MaxSteps}

StepIds(p) == DOMAIN p

----------------------------------------------------------------------------
\* Events.

\* ws.py: _broadcast sends every event down the socket of the client that
\* submitted the command.  tasks.py: create_task and create_task_sync call
\* run_task without on_event, so that pipeline._noop_callback discards it.
Delivered(m) == m = "ws"

Emit(kind) ==
    /\ lastEvent' = kind
    /\ doneEmitted' = IF kind = "task_done" THEN doneEmitted + 1 ELSE doneEmitted
    /\ doneObserved' = IF kind = "task_done" /\ Delivered(mode)
                       THEN doneObserved + 1 ELSE doneObserved

\* The driver is suspended in an await that gives the event loop to other
\* coroutines: asyncio.wait, or a socket send of the ws callback.  The
\* no-op callback never suspends.
EventPcs == {"planning_started", "planning_reasoning", "plan_ready", "step_event",
             "replanning", "replan_ready", "task_done", "except_done"}

Yields ==
    \/ pc \in {"wait", "returned", "raised", "cancelled"}
    \/ pc = "queued" /\ mode = "async"
    \/ mode = "ws" /\ pc \in EventPcs

----------------------------------------------------------------------------
\* DAGExecutor._get_ready_steps

\* A scheduler that launches a step as soon as one dependency has completed.
DepsMetAny(deps, comp) == deps = {} \/ \E d \in deps : d \in comp

DepsMet(deps, comp) == \A d \in deps : d \in comp

DependencyFailed(deps, failed) == deps # {} /\ (failed \cap deps) # {}

\* A scheduler that marks the dependents of a failed step failed.
ScanStepFailsDependents(st, s) ==
    IF st.status[s] # "pending"
    THEN [st EXCEPT !.removed = @ \cup {s}]
    ELSE IF DependencyFailed(plan[s], st.failed)
    THEN [st EXCEPT !.status[s] = "failed",
                    !.error[s] = "dependency failed",
                    !.failed = @ \cup {s},
                    !.removed = @ \cup {s}]
    ELSE IF DepsMet(plan[s], completed)
    THEN [st EXCEPT !.ready = @ \cup {s}, !.removed = @ \cup {s}]
    ELSE st

\* One iteration of the loop over self._pending.
ScanStep(st, s) ==
    IF st.status[s] # "pending"
    THEN [st EXCEPT !.removed = @ \cup {s}]
    ELSE IF DependencyFailed(plan[s], st.failed)
    THEN [st EXCEPT !.status[s] = "skipped",
                    !.error[s] = "dependency failed",
                    !.failed = @ \cup {s},
                    !.removed = @ \cup {s}]
    ELSE IF DepsMet(plan[s], completed)
    THEN [st EXCEPT !.ready = @ \cup {s}, !.removed = @ \cup {s}]
    ELSE st

RECURSIVE Scan(_, _, _)
Scan(ord, i, st) ==
    IF i > Len(ord) THEN st ELSE Scan(ord, i + 1, ScanStep(st, ord[i]))

\* The orders in which a Python set of step ids can be iterated.
Orders(S) == {f \in [1..Cardinality(S) -> S] : \A i, j \in DOMAIN f : f[i] = f[j] => i = j}

GetReadySteps(ord) ==
    Scan(ord, 1, [status |-> stepStatus, error |-> stepError,
                  failed |-> failed_ids, ready |-> {}, removed |-> {}])

----------------------------------------------------------------------------
PipelineInit ==
    /\ mode \in Modes
    /\ pc = "queued"
    /\ status = "queued"
    /\ error = "none"
    /\ plan = <<>>
    /\ stepStatus = <<>>
    /\ stepError = <<>>
    /\ started_at = <<>>
    /\ finished_at = <<>>
    /\ pending = {}
    /\ completed = {}
    /\ failed_ids = {}
    /\ running = {}
    /\ worker = <<>>
    /\ done = {}
    /\ caller = 0
    /\ summary = [completed |-> 0, failed |-> 0, skipped |-> 0, total |-> 0]
    /\ firstSummary = summary
    /\ clock = 0
    /\ lastEvent = "none"
    /\ stepEvents = <<>>
    /\ doneEmitted = 0
    /\ doneObserved = 0
    /\ replans = 0
    /\ executions = 0
    /\ shutdowns = 0
    /\ raisedInTry = FALSE

\* No plan is being ingested.
PlannerIdle ==
    /\ raw = <<>>
    /\ plannerOp = "none"
    /\ steps = <<>>
    /\ plannerError = "none"

\* Largest number of coroutines that use the breaker at a time.
MaxCallers == 2

Callers == 1..MaxCallers

\* circuit_breaker.py 60-78, with the default arguments: nobody is calling.
BreakerIdle ==
    /\ failure_threshold = 5
    /\ recovery_timeout = 30
    /\ half_open_max = 1
    /\ cbState = "closed"
    /\ failure_count = 0
    /\ success_count = 0
    /\ last_failure_time = 0
    /\ permits = 1
    /\ now = 0
    /\ cbCaller = [c \in Callers |-> [at |-> "idle"]]
    /\ streak = 0
    /\ lastOp = [op |-> "none", was |-> "closed", count |-> 0]

\* The value None, with its type name and its str().
None == [kind |-> <<"NoneType">>, message |-> "None"]

\* The outcome of an attempt that raised nothing.
Ok == [kind |-> <<>>, message |-> "ok"]

\* execute_step is not running.
ExecutorIdle ==
    /\ stepExecutor = "browser"
    /\ has_aws_credentials = FALSE
    /\ has_nova_act_key = FALSE
    /\ max_retries = 0
    /\ attempt = 0
    /\ exPc = "idle"
    /\ outcomes = <<>>
    /\ sleeps = <<>>
    /\ retries = 0
    /\ last_error = None
    /\ result = None

\* Largest number of coroutines between acquire and release at a time, of
\* domains, and of browser steps running at a time.
MaxPoolCallers == 2
MaxDomains == 2
MaxBrowserSteps == 2

PoolCallers == 1..MaxPoolCallers
Domains == 1..MaxDomains
BrowserSteps == 1..MaxBrowserSteps

\* browser_pool.py 37-42, config.py 29: the pool run_task constructs.
PoolIdle ==
    /\ poolMax = 3
    /\ semaphore = 3
    /\ locks = {}
    /\ lockOwner = [d \in Domains |-> 0]
    /\ sessions = [d \in Domains |-> 0]
    /\ active_count = 0
    /\ instances = 0
    /\ closedSessions = {}
    /\ poolCaller = [c \in PoolCallers |-> [at |-> "idle"]]
    /\ shutPc = "idle"
    /\ shutTodo = {}
    /\ poolShutdowns = 0
    /\ stepAgent = [w \in BrowserSteps |-> [agent |-> 0, pooled |-> FALSE]]

\* Largest number of subscribers of a task.
MaxSubscribers == 2

Subscribers == 1..MaxSubscribers

\* routers/ws.py 30-31, 57: nothing is connected and nothing is published.
BroadcastIdle ==
    /\ bcVia = "manager"
    /\ conns = <<>>
    /\ bcPc = "idle"
    /\ bcIdx = 0
    /\ dead = <<>>
    /\ published = 0
    /\ sockBuffer = [w \in Subscribers |-> <<>>]
    /\ received = [w \in Subscribers |-> <<>>]
    /\ sockClosed = {}

\* task_store.py 32-35, 111-122: an empty store.
StoreIdle ==
    /\ storeBackend = "memory"
    /\ timeline = <<>>
    /\ zset = {}
    /\ wallClock = 0
    /\ created = <<>>
    /\ listLimit = -1
    /\ listed = <<>>

MaxClients == 2
MaxInFlight == 1

Clients == 1..MaxClients
Slots == 1..MaxInFlight

NoResponse == [status |-> 0, headers |-> {}, retry_after_seconds |-> 0]

NoRequest ==
    [pc |-> "idle", path |-> <<>>, client_ip |-> 0, bucket |-> 0,
     response |-> NoResponse]

\* rate_limit.py 75-80: no bucket, no request.
LimiterIdle ==
    /\ monotonic = 0
    /\ buckets = [c \in Clients |-> 0]
    /\ bucketObjs = <<>>
    /\ last_cleanup = 0
    /\ requests = [r \in Slots |-> NoRequest]
    /\ served = <<>>

Init ==
    /\ PipelineInit
    /\ PlannerIdle
    /\ BreakerIdle
    /\ ExecutorIdle
    /\ PoolIdle
    /\ BroadcastIdle
    /\ StoreIdle
    /\ LimiterIdle

----------------------------------------------------------------------------
\* run_task, stage 1: planning.

\* pipeline.py 77-89
RT_Start ==
    /\ pc = "queued"
    /\ status' = "planning"
    /\ Emit("planning_started")
    /\ pc' = "planning_started"
    /\ UNCHANGED <<mode, error, plan, stepVars, dagVars, worker, caller, summary, firstSummary,
                   clock, replans, executions, shutdowns, raisedInTry>>
    /\ UNCHANGED outsidePipeline

\* pipeline.py 92-97
RT_Reasoning ==
    /\ pc = "planning_started"
    /\ Emit("planning_reasoning")
    /\ pc' = "planning_reasoning"
    /\ UNCHANGED <<mode, status, error, plan, stepVars, dagVars, worker, caller,
                   summary, firstSummary, clock, replans, executions, shutdowns,
                   raisedInTry>>
    /\ UNCHANGED outsidePipeline

\* The step events emitted for one step: the number of step_started events,
\* the number of step_completed / step_failed events, and the clock reading
\* when the last of these was passed to on_event.
NoStepEvents == [started |-> 0, final |-> 0, at |-> 0]

\* A fresh plan: every TaskStep is pending, with no error and no timestamps,
\* and no event carries the id of one of its steps yet.
InstallPlan(p) ==
    /\ plan' = p
    /\ stepStatus' = [s \in StepIds(p) |-> "pending"]
    /\ stepError' = [s \in StepIds(p) |-> "none"]
    /\ started_at' = [s \in StepIds(p) |-> 0]
    /\ finished_at' = [s \in StepIds(p) |-> 0]
    /\ stepEvents' = [s \in StepIds(p) |-> NoStepEvents]

\* pipeline.py 99-110
RT_CreatePlan ==
    /\ pc = "planning_reasoning"
    /\ \E p \in Plans : InstallPlan(p)
    /\ Emit("plan_ready")
    /\ pc' = "plan_ready"
    /\ UNCHANGED <<mode, status, error, dagVars, worker, caller, summary, firstSummary, clock,
                   replans, executions, shutdowns, raisedInTry>>
    /\ UNCHANGED outsidePipeline

\* pipeline.py 113-118 and 162-164, dag.py 42-55 and 129-132
RT_Execute ==
    /\ pc \in {"plan_ready", "replan_ready"}
    /\ status' = "executing"
    /\ pending' = StepIds(plan)
    /\ completed' = {}
    /\ failed_ids' = {}
    /\ running' = {}
    /\ done' = {}
    /\ worker' = [s \in StepIds(plan) |-> "none"]
    /\ caller' = IF pc = "plan_ready" THEN 1 ELSE 2
    /\ executions' = executions + 1
    /\ pc' = "schedule"
    /\ UNCHANGED <<mode, error, plan, stepVars, summary, firstSummary, clock, eventVars, replans,
                   shutdowns, raisedInTry>>
    /\ UNCHANGED outsidePipeline

----------------------------------------------------------------------------
\* DAGExecutor.execute

\* dag.py 134-148: one pass of the loop head, up to the await or the break.
DagSchedule ==
    /\ \/ pc = "schedule"
       \/ pc = "step_event" /\ done = {}
    /\ \E ord \in Orders(pending) :
        LET st == GetReadySteps(ord)
            run == running \cup st.ready
        IN  /\ stepStatus' = st.status
            /\ stepError' = st.error
            /\ failed_ids' = st.failed
            /\ pending' = pending \ st.removed
            /\ running' = run
            /\ worker' = [s \in DOMAIN worker |->
                            IF s \in st.ready THEN "created" ELSE worker[s]]
            /\ pc' = IF run = {} THEN "summary" ELSE "wait"
    /\ UNCHANGED <<mode, status, error, plan, started_at, finished_at, stepEvents,
                   completed, done, caller, summary, firstSummary, clock, eventVars,
                   replans, executions, shutdowns, raisedInTry>>
    /\ UNCHANGED outsidePipeline

\* A worker that calls execute_step without announcing the step.
WorkerStartSilent(s) ==
    /\ Yields
    /\ s \in DOMAIN worker
    /\ worker[s] = "created"
    /\ stepStatus' = [stepStatus EXCEPT ![s] = "running"]
    /\ started_at' = [started_at EXCEPT ![s] = clock]
    /\ worker' = [worker EXCEPT ![s] = "executing"]
    /\ UNCHANGED <<mode, pc, status, error, plan, stepError, finished_at, stepEvents,
                   dagVars, caller, summary, firstSummary, clock, eventVars, replans,
                   executions, shutdowns, raisedInTry>>
    /\ UNCHANGED outsidePipeline

\* dag.py 104-120: the worker marks the step running, emits step_started and
\* calls execute_step.
WorkerStart(s) ==
    /\ Yields
    /\ s \in DOMAIN worker
    /\ worker[s] = "created"
    /\ stepStatus' = [stepStatus EXCEPT ![s] = "running"]
    /\ started_at' = [started_at EXCEPT ![s] = clock]
    /\ Emit("step_started")
    /\ stepEvents' = [stepEvents EXCEPT ![s].started = @ + 1]
    /\ worker' = [worker EXCEPT ![s] = "executing"]
    /\ UNCHANGED <<mode, pc, status, error, plan, stepError, finished_at, dagVars,
                   caller, summary, firstSummary, clock, replans, executions,
                   shutdowns, raisedInTry>>
    /\ UNCHANGED outsidePipeline

\* dag.py 120-121: execute_step returns its result (success or not).
WorkerFinish(s) ==
    /\ Yields
    /\ s \in DOMAIN worker
    /\ worker[s] = "executing"
    /\ \E r \in {"ok", "fail"} : worker' = [worker EXCEPT ![s] = r]
    /\ UNCHANGED <<mode, pc, status, error, plan, stepVars, dagVars, caller, summary, firstSummary,
                   clock, eventVars, replans, executions, shutdowns,
                   raisedInTry>>
    /\ UNCHANGED outsidePipeline

\* dag.py 150-152: asyncio.wait returns the tasks that have finished.
DagWait ==
    /\ pc = "wait"
    /\ \E s \in running : worker[s] \in {"ok", "fail"}
    /\ done' = {s \in running : worker[s] \in {"ok", "fail"}}
    /\ pc' = "process"
    /\ UNCHANGED <<mode, status, error, plan, stepVars, pending, completed,
                   failed_ids, running, worker, caller, summary, firstSummary, clock, eventVars,
                   replans, executions, shutdowns, raisedInTry>>
    /\ UNCHANGED outsidePipeline

\* A scheduler that abandons the running siblings of a failed step.
RecordAbortSiblings(s) ==
    /\ running' = IF worker[s] = "ok" THEN running \ {s} ELSE {}
    /\ done' = done \ {s}
    /\ clock' = clock + 1
    /\ finished_at' = [finished_at EXCEPT ![s] = clock + 1]
    /\ IF worker[s] = "ok"
       THEN /\ stepStatus' = [stepStatus EXCEPT ![s] = "completed"]
            /\ completed' = completed \cup {s}
            /\ UNCHANGED <<stepError, failed_ids>>
       ELSE /\ stepStatus' = [stepStatus EXCEPT ![s] = "failed"]
            /\ stepError' = [stepError EXCEPT ![s] = "error"]
            /\ failed_ids' = failed_ids \cup {s}
            /\ UNCHANGED completed

\* dag.py 166-176 and 183-189: the bookkeeping for one finished task.
Record(s) ==
    /\ running' = running \ {s}
    /\ done' = done \ {s}
    /\ clock' = clock + 1
    /\ finished_at' = [finished_at EXCEPT ![s] = clock + 1]
    /\ IF worker[s] = "ok"
       THEN /\ stepStatus' = [stepStatus EXCEPT ![s] = "completed"]
            /\ completed' = completed \cup {s}
            /\ UNCHANGED <<stepError, failed_ids>>
       ELSE /\ stepStatus' = [stepStatus EXCEPT ![s] = "failed"]
            /\ stepError' = [stepError EXCEPT ![s] = "error"]
            /\ failed_ids' = failed_ids \cup {s}
            /\ UNCHANGED completed

\* dag.py 154-194: one iteration of the loop over done.
DagProcess(s) ==
    /\ pc \in {"process", "step_event"}
    /\ s \in done
    /\ Record(s)
    /\ Emit(IF worker[s] = "ok" THEN "step_completed" ELSE "step_failed")
    /\ stepEvents' = [stepEvents EXCEPT ![s].final = @ + 1, ![s].at = clock + 1]
    /\ pc' = "step_event"
    /\ UNCHANGED <<mode, status, error, plan, started_at, pending, worker, caller,
                   summary, firstSummary, replans, executions, shutdowns,
                   raisedInTry>>
    /\ UNCHANGED outsidePipeline

\* dag.py 177 and 190: on_event raises, and the exception leaves execute().
DagEmitRaises(s) ==
    /\ pc \in {"process", "step_event"}
    /\ s \in done
    /\ Record(s)
    /\ raisedInTry' = TRUE
    /\ pc' = "except"
    /\ UNCHANGED <<mode, status, error, plan, started_at, stepEvents, pending, worker,
                   caller, summary, firstSummary, eventVars, replans, executions,
                   shutdowns>>
    /\ UNCHANGED outsidePipeline

\* dag.py 196-213
Summary ==
    [completed |-> Cardinality(completed),
     failed    |-> Cardinality(failed_ids),
     skipped   |-> Len(plan) - Cardinality(completed) - Cardinality(failed_ids),
     total     |-> Len(plan)]

DagReturn ==
    /\ pc = "summary"
    /\ summary' = Summary
    /\ firstSummary' = IF caller = 1 THEN Summary ELSE firstSummary
    /\ pc' = IF caller = 1 THEN "degrade" ELSE "finalize"
    /\ UNCHANGED <<mode, status, error, plan, stepVars, dagVars, worker, caller,
                   clock, eventVars, replans, executions, shutdowns,
                   raisedInTry>>
    /\ UNCHANGED outsidePipeline

----------------------------------------------------------------------------
\* run_task, stages 3-6.

\* A driver that re-plans after any failure.
AllFailedAny(sm) == sm.failed > 0

\* pipeline.py 126
AllFailed(sm) == sm.completed = 0 /\ sm.failed > 0

\* A driver that re-plans without announcing it.
RT_DegradeSilent ==
    /\ pc = "degrade"
    /\ IF AllFailed(summary)
       THEN /\ status' = "replanning"
            /\ pc' = "replanning"
       ELSE /\ pc' = "finalize"
            /\ UNCHANGED status
    /\ UNCHANGED <<mode, error, plan, stepVars, dagVars, worker, caller, summary, firstSummary,
                   clock, eventVars, replans, executions, shutdowns, raisedInTry>>
    /\ UNCHANGED outsidePipeline

\* pipeline.py 124-138
RT_Degrade ==
    /\ pc = "degrade"
    /\ IF AllFailed(summary)
       THEN /\ status' = "replanning"
            /\ Emit("replanning")
            /\ pc' = "replanning"
       ELSE /\ pc' = "finalize"
            /\ UNCHANGED <<status, eventVars>>
    /\ UNCHANGED <<mode, error, plan, stepVars, dagVars, worker, caller, summary, firstSummary,
                   clock, replans, executions, shutdowns, raisedInTry>>
    /\ UNCHANGED outsidePipeline

\* pipeline.py 140-159
RT_Replan ==
    /\ pc = "replanning"
    /\ \E p \in Plans : InstallPlan(p)
    /\ replans' = replans + 1
    /\ Emit("plan_ready is_replan")
    /\ pc' = "replan_ready"
    /\ UNCHANGED <<mode, status, error, dagVars, worker, caller, summary, firstSummary, clock,
                   executions, shutdowns, raisedInTry>>
    /\ UNCHANGED outsidePipeline

\* A driver that calls a run without failures completed, whatever completed.
FinalStatusNoFailure(sm) ==
    IF sm.failed = 0 THEN "completed"
    ELSE IF sm.completed > 0 THEN "partial"
    ELSE "failed"

\* pipeline.py 125, 165, 168-176
FinalStatus(sm) ==
    LET has_completed == sm.completed > 0
        has_failed == sm.failed > 0
    IN  IF has_completed /\ ~has_failed THEN "completed"
        ELSE IF has_completed /\ has_failed THEN "partial"
        ELSE "failed"

RT_Finalize ==
    /\ pc = "finalize"
    /\ status' = FinalStatus(summary)
    /\ error' = IF FinalStatus(summary) = "failed" THEN "All steps failed" ELSE error
    /\ pc' = "format"
    /\ UNCHANGED <<mode, plan, stepVars, dagVars, worker, caller, summary, firstSummary, clock,
                   eventVars, replans, executions, shutdowns,
                   raisedInTry>>
    /\ UNCHANGED outsidePipeline

\* pipeline.py 178-203
RT_Output ==
    /\ pc = "format"
    /\ Emit("task_done")
    /\ pc' = "task_done"
    /\ UNCHANGED <<mode, status, error, plan, stepVars, dagVars, worker, caller,
                   summary, firstSummary, clock, replans, executions, shutdowns,
                   raisedInTry>>
    /\ UNCHANGED outsidePipeline

\* The positions whose next block of the try body calls something that can
\* raise: store.save, store.set_plan, on_event, create_plan, replan,
\* format_output, _build_trace.
RaisePcs == {"queued", "planning_started", "planning_reasoning", "plan_ready",
             "replanning", "replan_ready", "format"}

\* pipeline.py 83-205: an exception in the try body reaches the handler.
RT_Raise ==
    /\ pc \in RaisePcs
    /\ raisedInTry' = TRUE
    /\ pc' = "except"
    /\ UNCHANGED <<mode, status, error, plan, stepVars, dagVars, worker, caller,
                   summary, firstSummary, clock, eventVars, replans, executions,
                   shutdowns>>
    /\ UNCHANGED outsidePipeline

\* pipeline.py 205-217
RT_Except ==
    /\ pc = "except"
    /\ status' = "failed"
    /\ error' = "exception"
    /\ Emit("task_done")
    /\ pc' = "except_done"
    /\ UNCHANGED <<mode, plan, stepVars, dagVars, worker, caller, summary, firstSummary, clock,
                   replans, executions, shutdowns, raisedInTry>>
    /\ UNCHANGED outsidePipeline

\* pipeline.py 209-213: store.save or on_event raises inside the handler.
RT_ExceptRaises ==
    /\ pc = "except"
    /\ status' = "failed"
    /\ error' = "exception"
    /\ pc' = "except_raised"
    /\ UNCHANGED <<mode, plan, stepVars, dagVars, worker, caller, summary, firstSummary, clock,
                   eventVars, replans, executions, shutdowns,
                   raisedInTry>>
    /\ UNCHANGED outsidePipeline

\* The run_task coroutine is cancelled while it is suspended in an await of
\* the try statement: CancelledError is raised there, and `except Exception`
\* does not catch it.
RT_Cancelled ==
    /\ Yields
    /\ pc \notin {"queued", "returned", "raised", "cancelled"}
    /\ pc' = "cancelling"
    /\ UNCHANGED <<mode, status, error, plan, stepVars, dagVars, worker, caller,
                   summary, firstSummary, clock, eventVars, replans, executions,
                   shutdowns, raisedInTry>>
    /\ UNCHANGED outsidePipeline

\* A driver whose cleanup is skipped when the coroutine is cancelled.
RT_FinallyUnlessCancelled ==
    /\ pc \in {"task_done", "except_done", "except_raised", "cancelling"}
    /\ shutdowns' = IF pc = "cancelling" THEN shutdowns ELSE shutdowns + 1
    /\ pc' = CASE pc = "except_raised" -> "raised"
                [] pc = "cancelling" -> "cancelled"
                [] OTHER -> "returned"
    /\ UNCHANGED <<mode, status, error, plan, stepVars, dagVars, worker, caller,
                   summary, firstSummary, clock, eventVars, replans, executions,
                   raisedInTry>>
    /\ UNCHANGED outsidePipeline

\* pipeline.py 219-222
RT_Finally ==
    /\ pc \in {"task_done", "except_done", "except_raised", "cancelling"}
    /\ shutdowns' = shutdowns + 1
    /\ pc' = CASE pc = "except_raised" -> "raised"
                [] pc = "cancelling" -> "cancelled"
                [] OTHER -> "returned"
    /\ UNCHANGED <<mode, status, error, plan, stepVars, dagVars, worker, caller,
                   summary, firstSummary, clock, eventVars, replans, executions,
                   raisedInTry>>
    /\ UNCHANGED outsidePipeline

----------------------------------------------------------------------------
\* routers/tasks.py 75-85.  In the sync and ws modes the task is created by
\* run_task itself, so it cannot be found before run_task has started.
CancelTask ==
    /\ Yields
    /\ status \notin {"completed", "failed", "cancelled"}
    /\ status' = "cancelled"
    /\ UNCHANGED <<mode, pc, error, plan, stepVars, dagVars, worker, caller, summary, firstSummary,
                   clock, eventVars, replans, executions, shutdowns,
                   raisedInTry>>
    /\ UNCHANGED outsidePipeline

Next ==
    \/ RT_Start
    \/ RT_Reasoning
    \/ RT_CreatePlan
    \/ RT_Execute
    \/ DagSchedule
    \/ \E s \in 1..MaxSteps : WorkerStart(s)
    \/ \E s \in 1..MaxSteps : WorkerFinish(s)
    \/ DagWait
    \/ \E s \in 1..MaxSteps : DagProcess(s)
    \/ \E s \in 1..MaxSteps : DagEmitRaises(s)
    \/ DagReturn
    \/ RT_Degrade
    \/ RT_Replan
    \/ RT_Finalize
    \/ RT_Output
    \/ RT_Raise
    \/ RT_Except
    \/ RT_ExceptRaises
    \/ RT_Cancelled
    \/ RT_Finally
    \/ CancelTask

Spec == Init /\ [][Next]_vars

\* The steps run_task and DAGExecutor.execute take by themselves: the event
\* loop resumes a coroutine whose await has completed.
Driver ==
    \/ RT_Start
    \/ RT_Reasoning
    \/ RT_CreatePlan
    \/ RT_Execute
    \/ DagSchedule
    \/ DagWait
    \/ \E s \in 1..MaxSteps : DagProcess(s)
    \/ DagReturn
    \/ RT_Degrade
    \/ RT_Replan
    \/ RT_Finalize
    \/ RT_Output
    \/ RT_Except
    \/ RT_Finally

\* The event loop runs every coroutine that is ready, and every call of
\* execute_step returns.  Exceptions, cancellations and failing callbacks
\* may or may not happen.
LiveSpec ==
    /\ Init
    /\ [][Next]_vars
    /\ WF_vars(Driver)
    /\ \A s \in 1..MaxSteps : WF_vars(WorkerStart(s)) /\ WF_vars(WorkerFinish(s))

----------------------------------------------------------------------------
\* The Planner Adapter: _steps_from_raw, called by create_plan and replan.

\* Largest number of descriptors of a raw plan, and of entries of one
\* descriptor's depends_on.
MaxRawSteps == 2
MaxRawDeps == 1

\* The actions the planner prompt names for each executor.
BrowserActions == {"navigate", "search", "extract", "click", "fill"}
LlmActions == {"compare", "analyze", "rank", "summarize"}

\* The values of ExecutorType.
ExecutorType == {"browser", "llm"}

\* What a descriptor parsed from the model's JSON can carry.  "absent": the
\* key is missing.  "other": a string that is no ExecutorType value.
RawActions == BrowserActions \cup LlmActions \cup {"absent"}
RawExecutors == ExecutorType \cup {"absent", "other"}

\* An entry of depends_on: an integer (in range or not), a string, or a JSON
\* value of another type (a float, null).
RawRefs ==
    {[kind |-> "int", v |-> i] : i \in -1..MaxRawSteps}
        \cup {[kind |-> "str", v |-> 0], [kind |-> "other", v |-> 0]}

RECURSIVE SeqsUpTo(_, _)
SeqsUpTo(S, n) ==
    IF n = 0 THEN {<<>>}
    ELSE SeqsUpTo(S, n - 1) \cup {Append(q, x) : q \in SeqsUpTo(S, n - 1), x \in S}

RawItems ==
    [action : RawActions, executor : RawExecutors,
     depends_on : SeqsUpTo(RawRefs, MaxRawDeps)]

RawPlans == SeqsUpTo(RawItems, MaxRawSteps)

\* planner.py 219-222: the entries of depends_on that are kept.
Kept(dep, n) ==
    \/ dep.kind = "int" /\ 0 <= dep.v /\ dep.v < n
    \/ dep.kind = "str"

\* The step built from the descriptor of index i (from 0) gets a fresh id,
\* written i + 1 here; a string is appended as it is, and names no step.
ResolveDep(dep) == IF dep.kind = "int" THEN dep.v + 1 ELSE Unresolved

Resolved(raw_deps, n) ==
    LET kept == SelectSeq(raw_deps, LAMBDA dep : Kept(dep, n))
    IN  [j \in 1..Len(kept) |-> ResolveDep(kept[j])]

\* planner.py 204-211: the TaskStep of one descriptor.
TaskStep(i, item) ==
    [id |-> i,
     action |-> IF item.action = "absent" THEN "unknown" ELSE item.action,
     executor |-> IF item.executor = "absent" THEN "browser" ELSE item.executor,
     depends_on |-> <<>>]

\* planner.py 199-225.  ExecutorType(value) raises ValueError for a value
\* that is not a member.
StepsFromRaw(r) ==
    IF \E i \in DOMAIN r : r[i].executor = "other"
    THEN [error |-> "ValueError", steps |-> <<>>]
    ELSE [error |-> "none",
          steps |-> [i \in DOMAIN r |->
                        [TaskStep(i, r[i]) EXCEPT
                            !.depends_on = Resolved(r[i].depends_on, Len(r))]]]

PlannerInit ==
    /\ raw \in RawPlans
    /\ plannerOp = "none"
    /\ steps = <<>>
    /\ plannerError = "none"
    /\ PipelineInit
    /\ mode = "async"
    /\ BreakerIdle
    /\ ExecutorIdle
    /\ PoolIdle
    /\ BroadcastIdle
    /\ StoreIdle
    /\ LimiterIdle

\* planner.py 228-245
CreatePlan ==
    /\ plannerOp = "none"
    /\ plannerOp' = "create_plan"
    /\ steps' = StepsFromRaw(raw).steps
    /\ plannerError' = StepsFromRaw(raw).error
    /\ UNCHANGED raw
    /\ UNCHANGED outsidePlanner

\* planner.py 248-262
Replan ==
    /\ plannerOp = "none"
    /\ plannerOp' = "replan"
    /\ steps' = StepsFromRaw(raw).steps
    /\ plannerError' = StepsFromRaw(raw).error
    /\ UNCHANGED raw
    /\ UNCHANGED outsidePlanner

PlannerNext == CreatePlan \/ Replan

PlannerSpec == PlannerInit /\ [][PlannerNext]_vars

----------------------------------------------------------------------------
\* CircuitBreaker.  __aenter__ and __aexit__ run without suspending: the lock
\* is free whenever it is taken, and the semaphore is acquired only when it
\* has a permit.  The callers interleave while they are inside the guarded
\* body.

\* Largest constructor arguments, latest clock reading, and the number of
\* successes after which no further call is made.
MaxThreshold == 2
MaxTimeout == 2
MaxHalfOpen == 1
MaxTime == 2
MaxSuccesses == 2

Max(a, b) == IF a >= b THEN a ELSE b

\* circuit_breaker.py 60-78
BreakerInit ==
    /\ failure_threshold \in 1..MaxThreshold
    /\ recovery_timeout \in 1..MaxTimeout
    /\ half_open_max \in 1..MaxHalfOpen
    /\ cbState = "closed"
    /\ failure_count = 0
    /\ success_count = 0
    /\ last_failure_time = 0
    /\ permits = half_open_max
    /\ now = 0
    /\ cbCaller = [c \in Callers |-> [at |-> "idle"]]
    /\ streak = 0
    /\ lastOp = [op |-> "none", was |-> "closed", count |-> 0]
    /\ PipelineInit
    /\ mode = "async"
    /\ PlannerIdle
    /\ ExecutorIdle
    /\ PoolIdle
    /\ BroadcastIdle
    /\ StoreIdle
    /\ LimiterIdle

\* What an entry or an exit leaves in lastOp and streak.
Recorded(op) ==
    /\ lastOp' = [op |-> op, was |-> cbState, count |-> failure_count]
    /\ streak' = IF cbState' = "closed" /\ failure_count' = 0 THEN 0
                  ELSE IF op = "failure" THEN streak + 1
                  ELSE streak

\* The clock advances.
Tick ==
    /\ now < MaxTime
    /\ now' = now + 1
    /\ UNCHANGED <<failure_threshold, recovery_timeout, half_open_max, cbState,
                   failure_count, success_count, last_failure_time, permits,
                   cbCaller, streak, lastOp>>
    /\ UNCHANGED outsideBreaker

\* A breaker that lets a probe through as soon as it is open.
StatePropertyEager(t) ==
    IF cbState = "open" THEN "half_open" ELSE cbState

\* circuit_breaker.py 80-92: the value of the property state, which is also
\* stored in _state, when the clock reads t.
StateProperty(t) ==
    IF cbState = "open" /\ t - last_failure_time >= recovery_timeout
    THEN "half_open"
    ELSE cbState

\* circuit_breaker.py 94-104 (main.py 83-92): stats reads the property.
Stats ==
    /\ cbState' = StateProperty(now)
    /\ UNCHANGED <<failure_threshold, recovery_timeout, half_open_max,
                   failure_count, success_count, last_failure_time, permits, now,
                   cbCaller, streak, lastOp>>
    /\ UNCHANGED outsideBreaker

\* circuit_breaker.py 111-114: retry_after, from a clock reading t.
RetryAfter(t) == Max(0, recovery_timeout - (t - last_failure_time))

CircuitOpenError(r) == [at |-> "CircuitOpenError", retry_after |-> r]

\* A caller inside the guarded body; entered is the state __aenter__ found.
Body(state) == [at |-> "body", entered |-> state]

\* circuit_breaker.py 106-123.  The clock is read once by the property and
\* once more for retry_after.
Enter(c) ==
    /\ cbCaller[c].at = "idle"
    /\ success_count < MaxSuccesses
    /\ LET state == StateProperty(now)
       IN  /\ cbState' = state
           /\ CASE state = "open" ->
                    /\ \E t \in now..MaxTime :
                        /\ now' = t
                        /\ cbCaller' = [cbCaller EXCEPT ![c] = CircuitOpenError(RetryAfter(t))]
                    /\ UNCHANGED permits
                [] state = "half_open" ->
                    /\ IF permits > 0
                       THEN /\ permits' = permits - 1
                            /\ cbCaller' = [cbCaller EXCEPT ![c] = Body(state)]
                       ELSE /\ cbCaller' = [cbCaller EXCEPT ![c] = CircuitOpenError(1)]
                            /\ UNCHANGED permits
                    /\ UNCHANGED now
                [] OTHER ->
                    /\ cbCaller' = [cbCaller EXCEPT ![c] = Body(state)]
                    /\ UNCHANGED <<permits, now>>
    /\ UNCHANGED <<failure_threshold, recovery_timeout, half_open_max,
                   failure_count, success_count, last_failure_time>>
    /\ Recorded("enter")
    /\ UNCHANGED outsideBreaker

\* The caller handles the CircuitOpenError.
Rejected(c) ==
    /\ cbCaller[c].at = "CircuitOpenError"
    /\ cbCaller' = [cbCaller EXCEPT ![c] = [at |-> "idle"]]
    /\ UNCHANGED <<failure_threshold, recovery_timeout, half_open_max, cbState,
                   failure_count, success_count, last_failure_time, permits, now,
                   streak, lastOp>>
    /\ UNCHANGED outsideBreaker

\* circuit_breaker.py 127-128
Release == permits' = IF cbState = "half_open" THEN permits + 1 ELSE permits

\* A breaker that keeps its failure counter when a call succeeds.
OnSuccessKeepCount ==
    /\ success_count' = success_count + 1
    /\ IF cbState = "half_open"
       THEN /\ cbState' = "closed"
            /\ failure_count' = 0
       ELSE UNCHANGED <<cbState, failure_count>>
    /\ UNCHANGED last_failure_time

\* circuit_breaker.py 138-152
OnSuccess ==
    /\ success_count' = success_count + 1
    /\ IF cbState = "half_open"
       THEN /\ cbState' = "closed"
            /\ failure_count' = 0
       ELSE IF cbState = "closed"
       THEN /\ failure_count' = 0
            /\ UNCHANGED cbState
       ELSE UNCHANGED <<cbState, failure_count>>
    /\ UNCHANGED last_failure_time

\* A breaker that opens one failure late.
OnFailureLate ==
    /\ failure_count' = failure_count + 1
    /\ last_failure_time' = now
    /\ cbState' = IF cbState = "half_open" THEN "open"
                   ELSE IF cbState = "closed" /\ failure_count + 1 > failure_threshold
                   THEN "open"
                   ELSE cbState
    /\ UNCHANGED success_count

\* circuit_breaker.py 154-175
OnFailure ==
    /\ failure_count' = failure_count + 1
    /\ last_failure_time' = now
    /\ cbState' = IF cbState = "half_open" THEN "open"
                   ELSE IF cbState = "closed" /\ failure_count + 1 >= failure_threshold
                   THEN "open"
                   ELSE cbState
    /\ UNCHANGED success_count

\* circuit_breaker.py 125-136, the guarded body having returned.
ExitSuccess(c) ==
    /\ cbCaller[c].at = "body"
    /\ cbCaller' = [cbCaller EXCEPT ![c] = [at |-> "idle"]]
    /\ Release
    /\ OnSuccess
    /\ UNCHANGED <<failure_threshold, recovery_timeout, half_open_max, now>>
    /\ Recorded("success")
    /\ UNCHANGED outsideBreaker

\* circuit_breaker.py 125-136, the guarded body having raised.
ExitFailure(c) ==
    /\ cbCaller[c].at = "body"
    /\ cbCaller' = [cbCaller EXCEPT ![c] = [at |-> "idle"]]
    /\ Release
    /\ OnFailure
    /\ UNCHANGED <<failure_threshold, recovery_timeout, half_open_max, now>>
    /\ Recorded("failure")
    /\ UNCHANGED outsideBreaker

\* circuit_breaker.py 177-181
Reset ==
    /\ cbState' = "closed"
    /\ failure_count' = 0
    /\ UNCHANGED <<failure_threshold, recovery_timeout, half_open_max,
                   success_count, last_failure_time, permits, now, cbCaller,
                   lastOp>>
    /\ streak' = 0
    /\ UNCHANGED outsideBreaker

BreakerNext ==
    \/ Tick
    \/ Stats
    \/ \E c \in Callers : Enter(c)
    \/ \E c \in Callers : Rejected(c)
    \/ \E c \in Callers : ExitSuccess(c)
    \/ \E c \in Callers : ExitFailure(c)
    \/ Reset

BreakerSpec == BreakerInit /\ [][BreakerNext]_vars

----------------------------------------------------------------------------
\* The Step Executor: execute_step (backend/services/executor.py).
\*
\* The coroutine suspends at the backend call of each attempt and at the
\* backoff sleep between two attempts; the code between is atomic.  The
\* name of an error kind is a sequence of words, so that a pattern is found
\* in it the way the operator "in" finds a substring.

MaxRetries == 2

\* type(exc).__name__ of the exceptions a backend call raises.
ErrorKinds == {<<"Runtime", "Error">>,
               <<"Act", "ExceededMaxSteps", "Error">>,
               <<"ExceededMaxSteps">>,
               <<"Circuit", "Open", "Error">>}

\* str(exc)
ErrorMessages == {"m1", "m2"}

BackendErrors == [kind : ErrorKinds, message : ErrorMessages]

\* executor.py 91
NO_RETRY_PATTERNS == {<<"ExceededMaxSteps">>, <<"Act", "ExceededMaxSteps">>}

\* pat in exc_name
Contains(name, pat) ==
    \E i \in 1..(Len(name) - Len(pat) + 1) :
        SubSeq(name, i, i + Len(pat) - 1) = pat

\* An executor that compares the whole name of the error kind with the
\* patterns.
NoRetryWholeName(exc_name) == exc_name \in NO_RETRY_PATTERNS

\* executor.py 250-251
NoRetry(exc_name) == \E pat \in NO_RETRY_PATTERNS : Contains(exc_name, pat)

\* executor.py 261: 2 ** attempt
RECURSIVE Pow2(_)
Pow2(n) == IF n = 0 THEN 1 ELSE 2 * Pow2(n - 1)

\* executor.py 275: f"{type(last_error).__name__}: {last_error}"
ErrorText(e) == e.kind \o <<": ", e.message>>

\* An executor that reports the first error of the step.
FailureResultFirst(e) ==
    [success |-> FALSE,
     error |-> ErrorText(IF outcomes = <<>> THEN e ELSE outcomes[1])]

\* executor.py 275
FailureResult(e) == [success |-> FALSE, error |-> ErrorText(e)]

\* executor.py 224-239: the backend an attempt calls.
Backend ==
    IF stepExecutor = "llm"
    THEN IF has_aws_credentials THEN "execute_with_llm" ELSE "mock_llm_execute"
    ELSE IF has_nova_act_key THEN "_execute_with_nova_act"
         ELSE "_mock_result_for_step"

\* The backends that call an external service.
External == {"execute_with_llm", "_execute_with_nova_act"}

\* circuit_breaker.py 184-190: the breaker of the step's external service,
\* which no caller has entered.
BreakerOf(ex) ==
    /\ failure_threshold = (IF ex = "llm" THEN 5 ELSE 3)
    /\ recovery_timeout = (IF ex = "llm" THEN 30 ELSE 60)
    /\ half_open_max = 1
    /\ cbState = "closed"
    /\ failure_count = 0
    /\ success_count = 0
    /\ last_failure_time = 0
    /\ permits = 1
    /\ now = 0
    /\ cbCaller = [c \in Callers |-> [at |-> "idle"]]
    /\ streak = 0
    /\ lastOp = [op |-> "none", was |-> "closed", count |-> 0]

\* executor.py 207-222: execute_step is called and reaches the backend call
\* of attempt 0.
ExecutorInit ==
    /\ stepExecutor \in {"browser", "llm"}
    /\ has_aws_credentials \in BOOLEAN
    /\ has_nova_act_key \in BOOLEAN
    /\ max_retries \in 0..MaxRetries
    /\ attempt = 0
    /\ exPc = "call"
    /\ outcomes = <<>>
    /\ sleeps = <<>>
    /\ retries = 0
    /\ last_error = None
    /\ result = None
    /\ BreakerOf(stepExecutor)
    /\ PipelineInit
    /\ mode = "async"
    /\ PlannerIdle
    /\ PoolIdle
    /\ BroadcastIdle
    /\ StoreIdle
    /\ LimiterIdle

\* executor.py 224-243: the backend call returns.
AttemptSucceeds ==
    /\ exPc = "call"
    /\ outcomes' = Append(outcomes, Ok)
    /\ retries' = attempt
    /\ result' = [success |-> TRUE, executor |-> stepExecutor]
    /\ exPc' = "returned"
    /\ UNCHANGED <<stepExecutor, has_aws_credentials, has_nova_act_key,
                   max_retries, attempt, sleeps, last_error>>
    /\ UNCHANGED outsideExecutor

\* An executor that sleeps after every failed attempt, the last included.
AttemptFailsAlwaysSleeps(e) ==
    /\ exPc = "call"
    /\ Backend \in External
    /\ outcomes' = Append(outcomes, e)
    /\ last_error' = e
    /\ retries' = attempt + 1
    /\ IF NoRetry(e.kind)
       THEN /\ result' = FailureResult(e)
            /\ exPc' = "returned"
            /\ UNCHANGED sleeps
       ELSE /\ sleeps' = Append(sleeps, Pow2(attempt))
            /\ exPc' = "sleep"
            /\ UNCHANGED result
    /\ UNCHANGED <<stepExecutor, has_aws_credentials, has_nova_act_key,
                   max_retries, attempt>>
    /\ UNCHANGED outsideExecutor

\* executor.py 224-275: the backend call raises e.  The mock backends do
\* not raise.
AttemptFails(e) ==
    /\ exPc = "call"
    /\ Backend \in External
    /\ outcomes' = Append(outcomes, e)
    /\ last_error' = e
    /\ retries' = attempt + 1
    /\ IF NoRetry(e.kind)
       THEN /\ result' = FailureResult(e)
            /\ exPc' = "returned"
            /\ UNCHANGED sleeps
       ELSE IF attempt < max_retries
       THEN /\ sleeps' = Append(sleeps, Pow2(attempt))
            /\ exPc' = "sleep"
            /\ UNCHANGED result
       ELSE /\ result' = FailureResult(e)
            /\ exPc' = "returned"
            /\ UNCHANGED sleeps
    /\ UNCHANGED <<stepExecutor, has_aws_credentials, has_nova_act_key,
                   max_retries, attempt>>
    /\ UNCHANGED outsideExecutor

\* executor.py 266, 222: the backoff sleep ends and the next attempt calls
\* the backend.
BackoffDone ==
    /\ exPc = "sleep"
    /\ attempt' = attempt + 1
    /\ exPc' = "call"
    /\ UNCHANGED <<stepExecutor, has_aws_credentials, has_nova_act_key,
                   max_retries, outcomes, sleeps, retries, last_error, result>>
    /\ UNCHANGED outsideExecutor

\* dag.py cancels the task of _run_step while execute_step is suspended:
\* CancelledError is not an Exception, line 245 does not catch it.
ExecutorCancelled ==
    /\ exPc \in {"call", "sleep"}
    /\ exPc' = "cancelled"
    /\ UNCHANGED <<stepExecutor, has_aws_credentials, has_nova_act_key,
                   max_retries, attempt, outcomes, sleeps, retries,
                   last_error, result>>
    /\ UNCHANGED outsideExecutor

ExecutorNext ==
    \/ AttemptSucceeds
    \/ \E e \in BackendErrors : AttemptFails(e)
    \/ BackoffDone
    \/ ExecutorCancelled

ExecutorSpec == ExecutorInit /\ [][ExecutorNext]_vars

----------------------------------------------------------------------------
\* The Session Pool: BrowserPool (backend/services/browser_pool.py), used
\* as its docstring says (acquire, use, release, and shutdown at the end),
\* and the browser steps of executor.py that look a session up in it.
\*
\* An asyncio semaphore or lock that is free is taken without suspending, so
\* acquire() runs atomically up to the first primitive that is not free, or
\* up to the creation of the session.

MaxBrowsers == 2
MaxInstances == 3
MaxShutdowns == 2

PoolInit ==
    /\ poolMax \in 1..MaxBrowsers
    /\ semaphore = poolMax
    /\ locks = {}
    /\ lockOwner = [d \in Domains |-> 0]
    /\ sessions = [d \in Domains |-> 0]
    /\ active_count = 0
    /\ instances = 0
    /\ closedSessions = {}
    /\ poolCaller = [c \in PoolCallers |-> [at |-> "idle"]]
    /\ shutPc = "idle"
    /\ shutTodo = {}
    /\ poolShutdowns = 0
    /\ stepAgent = [w \in BrowserSteps |-> [agent |-> 0, pooled |-> FALSE]]
    /\ PipelineInit
    /\ mode = "async"
    /\ PlannerIdle
    /\ BreakerIdle
    /\ ExecutorIdle
    /\ BroadcastIdle
    /\ StoreIdle
    /\ LimiterIdle

\* browser_pool.py 65-70: inside the domain's lock, up to the return of an
\* existing session or to the await of _create_session.
EnterLock(c, d) ==
    IF sessions[d] # 0
    THEN /\ poolCaller' = [poolCaller EXCEPT
                              ![c] = [at |-> "holding", domain |-> d,
                                      got |-> sessions[d]]]
         /\ lockOwner' = [lockOwner EXCEPT ![d] = 0]
    ELSE /\ poolCaller' = [poolCaller EXCEPT
                              ![c] = [at |-> "creating", domain |-> d]]
         /\ lockOwner' = [lockOwner EXCEPT ![d] = c]

\* browser_pool.py 60-65: with a slot of the semaphore, up to the lock.
AfterSemaphore(c, d) ==
    /\ semaphore' = semaphore - 1
    /\ locks' = locks \cup {d}
    /\ IF lockOwner[d] = 0
       THEN EnterLock(c, d)
       ELSE /\ poolCaller' = [poolCaller EXCEPT
                                 ![c] = [at |-> "lock", domain |-> d]]
            /\ UNCHANGED lockOwner

\* browser_pool.py 52-70: acquire(url) is called.
Acquire(c, d) ==
    /\ poolCaller[c].at = "idle"
    /\ IF semaphore > 0
       THEN AfterSemaphore(c, d)
       ELSE /\ poolCaller' = [poolCaller EXCEPT
                                 ![c] = [at |-> "sem", domain |-> d]]
            /\ UNCHANGED <<semaphore, locks, lockOwner>>
    /\ UNCHANGED <<poolMax, sessions, active_count, instances, closedSessions,
                   shutPc, shutTodo, poolShutdowns, stepAgent>>
    /\ UNCHANGED outsidePool

\* browser_pool.py 60-70: a coroutine waiting for the semaphore gets a slot.
SemaphoreGranted(c) ==
    /\ poolCaller[c].at = "sem"
    /\ semaphore > 0
    /\ AfterSemaphore(c, poolCaller[c].domain)
    /\ UNCHANGED <<poolMax, sessions, active_count, instances, closedSessions,
                   shutPc, shutTodo, poolShutdowns, stepAgent>>
    /\ UNCHANGED outsidePool

\* browser_pool.py 65-70: a coroutine waiting for the domain's lock gets it.
LockGranted(c) ==
    /\ poolCaller[c].at = "lock"
    /\ lockOwner[poolCaller[c].domain] = 0
    /\ EnterLock(c, poolCaller[c].domain)
    /\ UNCHANGED <<poolMax, semaphore, locks, sessions, active_count, instances,
                   closedSessions, shutPc, shutTodo, poolShutdowns, stepAgent>>
    /\ UNCHANGED outsidePool

\* A pool that opens a session without recording it under its domain.
SessionCreatedUnrecorded(c, ok) ==
    /\ poolCaller[c].at = "creating"
    /\ ok => instances < MaxInstances
    /\ LET d == poolCaller[c].domain
           new == instances + 1
       IN /\ IF ok
             THEN /\ active_count' = active_count + 1
                  /\ instances' = new
             ELSE UNCHANGED <<active_count, instances>>
          /\ UNCHANGED sessions
          /\ poolCaller' = [poolCaller EXCEPT
                               ![c] = [at |-> "holding", domain |-> d,
                                       got |-> IF ok THEN new ELSE 0]]
          /\ lockOwner' = [lockOwner EXCEPT ![d] = 0]
    /\ UNCHANGED <<poolMax, semaphore, locks, closedSessions, shutPc, shutTodo,
                   poolShutdowns, stepAgent>>
    /\ UNCHANGED outsidePool

\* browser_pool.py 70-78, 92-116: _create_session returns a new session
\* (ok) or None (no API key, or NovaAct failed to start), and acquire
\* returns it.
SessionCreated(c, ok) ==
    /\ poolCaller[c].at = "creating"
    /\ ok => instances < MaxInstances
    /\ LET d == poolCaller[c].domain
           new == instances + 1
       IN /\ IF ok
             THEN /\ sessions' = [sessions EXCEPT ![d] = new]
                  /\ active_count' = active_count + 1
                  /\ instances' = new
             ELSE UNCHANGED <<sessions, active_count, instances>>
          /\ poolCaller' = [poolCaller EXCEPT
                               ![c] = [at |-> "holding", domain |-> d,
                                       got |-> IF ok THEN new ELSE 0]]
          /\ lockOwner' = [lockOwner EXCEPT ![d] = 0]
    /\ UNCHANGED <<poolMax, semaphore, locks, closedSessions, shutPc, shutTodo,
                   poolShutdowns, stepAgent>>
    /\ UNCHANGED outsidePool

\* browser_pool.py 80-82: release(url), called by the coroutine that
\* acquired.
PoolRelease(c) ==
    /\ poolCaller[c].at = "holding"
    /\ semaphore' = semaphore + 1
    /\ poolCaller' = [poolCaller EXCEPT ![c] = [at |-> "idle"]]
    /\ UNCHANGED <<poolMax, locks, lockOwner, sessions, active_count, instances,
                   closedSessions, shutPc, shutTodo, poolShutdowns, stepAgent>>
    /\ UNCHANGED outsidePool

\* browser_pool.py 133-135: the end of shutdown().
ShutdownEnd ==
    /\ sessions' = [d \in Domains |-> 0]
    /\ active_count' = 0
    /\ shutPc' = "idle"
    /\ shutTodo' = {}
    /\ poolShutdowns' = poolShutdowns + 1

\* browser_pool.py 118-135: shutdown() is called; it lists the sessions and
\* suspends while the first is closed, or ends at once when there is none.
ShutdownStart ==
    /\ shutPc = "idle"
    /\ poolShutdowns < MaxShutdowns
    /\ LET todo == {sessions[d] : d \in Domains} \ {0}
       IN IF todo = {}
          THEN ShutdownEnd
          ELSE /\ shutPc' = "closing"
               /\ shutTodo' = todo
               /\ UNCHANGED <<sessions, active_count, poolShutdowns>>
    /\ UNCHANGED <<poolMax, semaphore, locks, lockOwner, instances,
                   closedSessions, poolCaller, stepAgent>>
    /\ UNCHANGED outsidePool

\* browser_pool.py 120-135: a session of the list has been closed; the next
\* one is being closed, or shutdown() ends.
ShutdownClosed ==
    /\ shutPc = "closing"
    /\ \E id \in shutTodo :
          /\ closedSessions' = closedSessions \cup {id}
          /\ IF shutTodo = {id}
             THEN ShutdownEnd
             ELSE /\ shutTodo' = shutTodo \ {id}
                  /\ UNCHANGED <<sessions, active_count, shutPc, poolShutdowns>>
    /\ UNCHANGED <<poolMax, semaphore, locks, lockOwner, instances, poolCaller,
                   stepAgent>>
    /\ UNCHANGED outsidePool

\* browser_pool.py 84-90
GetSession(d) == sessions[d]

\* executor.py 94-118: a browser step starts on the domain's pooled session
\* if get_session finds one, and on a NovaAct instance of its own otherwise.
StepRuns(w, d) ==
    /\ stepAgent[w].agent = 0
    /\ IF GetSession(d) # 0
       THEN /\ stepAgent' = [stepAgent EXCEPT
                                ![w] = [agent |-> GetSession(d), pooled |-> TRUE]]
            /\ UNCHANGED instances
       ELSE /\ instances < MaxInstances
            /\ instances' = instances + 1
            /\ stepAgent' = [stepAgent EXCEPT
                                ![w] = [agent |-> instances + 1, pooled |-> FALSE]]
    /\ UNCHANGED <<poolMax, semaphore, locks, lockOwner, sessions, active_count,
                   closedSessions, poolCaller, shutPc, shutTodo, poolShutdowns>>
    /\ UNCHANGED outsidePool

\* executor.py 109-118: the step's act() ends; an instance of its own is
\* closed by the with statement.
StepDone(w) ==
    /\ stepAgent[w].agent # 0
    /\ closedSessions' = IF stepAgent[w].pooled THEN closedSessions
                         ELSE closedSessions \cup {stepAgent[w].agent}
    /\ stepAgent' = [stepAgent EXCEPT ![w] = [agent |-> 0, pooled |-> FALSE]]
    /\ UNCHANGED <<poolMax, semaphore, locks, lockOwner, sessions, active_count,
                   instances, poolCaller, shutPc, shutTodo, poolShutdowns>>
    /\ UNCHANGED outsidePool

PoolNext ==
    \/ \E c \in PoolCallers, d \in Domains : Acquire(c, d)
    \/ \E c \in PoolCallers : SemaphoreGranted(c)
    \/ \E c \in PoolCallers : LockGranted(c)
    \/ \E c \in PoolCallers, ok \in BOOLEAN : SessionCreated(c, ok)
    \/ \E c \in PoolCallers : PoolRelease(c)
    \/ ShutdownStart
    \/ ShutdownClosed
    \/ \E w \in BrowserSteps, d \in Domains : StepRuns(w, d)
    \/ \E w \in BrowserSteps : StepDone(w)

PoolSpec == PoolInit /\ [][PoolNext]_vars

----------------------------------------------------------------------------
\* The Event Broadcaster (backend/routers/ws.py).
\*
\* A WebSocket connection is a bounded buffer between the server and the
\* client: send_text returns once the message is in the buffer, stays
\* suspended while the buffer is full, and raises when the client has gone.

MaxEvents == 3
MaxBuffer == 1

Events == 1..MaxEvents

\* The lists of connections connect() can have built.
ConnLists ==
    {c \in UNION {[1..n -> Subscribers] : n \in 1..MaxSubscribers} :
        \A i, j \in DOMAIN c : c[i] = c[j] => i = j}

\* ws.py 27-31 and 86-92: the producer publishes either through the
\* manager, to the connections of the task, or through the callback of
\* ws_run_task, to the one socket of the request.
BroadcastInit ==
    /\ bcVia \in {"manager", "callback"}
    /\ conns \in IF bcVia = "callback" THEN {<<1>>} ELSE ConnLists
    /\ bcPc = "idle"
    /\ bcIdx = 0
    /\ dead = <<>>
    /\ published = 0
    /\ sockBuffer = [w \in Subscribers |-> <<>>]
    /\ received = [w \in Subscribers |-> <<>>]
    /\ sockClosed = {}
    /\ PipelineInit
    /\ mode = "async"
    /\ PlannerIdle
    /\ BreakerIdle
    /\ ExecutorIdle
    /\ PoolIdle
    /\ StoreIdle
    /\ LimiterIdle

\* ws.py 44-48, 86-88: the producer awaits broadcast(event) and reaches the
\* first send_text.
Publish ==
    /\ bcPc = "idle"
    /\ published < MaxEvents
    /\ published' = published + 1
    /\ dead' = <<>>
    /\ IF conns = <<>>
       THEN UNCHANGED <<bcPc, bcIdx>>
       ELSE bcPc' = "sending" /\ bcIdx' = 1
    /\ UNCHANGED <<bcVia, conns, sockBuffer, received, sockClosed>>
    /\ UNCHANGED outsideBroadcast

\* ws.py 37-42
Disconnect(c, ws) == SelectSeq(c, LAMBDA x : x # ws)

RECURSIVE DisconnectAll(_, _)
DisconnectAll(c, d) ==
    IF d = <<>> THEN c ELSE DisconnectAll(Disconnect(c, Head(d)), Tail(d))

\* ws.py 48-54, 88-91: after one send_text, the next connection of the loop,
\* or the end of the broadcast; d is the list dead.
NextConnection(d) ==
    IF bcIdx < Len(conns)
    THEN /\ bcIdx' = bcIdx + 1
         /\ UNCHANGED <<bcPc, conns>>
    ELSE /\ bcIdx' = 0
         /\ bcPc' = "idle"
         /\ conns' = IF bcVia = "manager" THEN DisconnectAll(conns, d) ELSE conns

\* ws.py 50, 88: send_text returns.
SendReturns ==
    /\ bcPc = "sending"
    /\ LET ws == conns[bcIdx]
       IN /\ ws \notin sockClosed
          /\ Len(sockBuffer[ws]) < MaxBuffer
          /\ sockBuffer' = [sockBuffer EXCEPT ![ws] = Append(@, published)]
    /\ NextConnection(dead)
    /\ UNCHANGED <<bcVia, dead, published, received, sockClosed>>
    /\ UNCHANGED outsideBroadcast

\* ws.py 51-52, 89-90: send_text raises.
SendRaises ==
    /\ bcPc = "sending"
    /\ conns[bcIdx] \in sockClosed
    /\ dead' = Append(dead, conns[bcIdx])
    /\ NextConnection(Append(dead, conns[bcIdx]))
    /\ UNCHANGED <<bcVia, published, sockBuffer, received, sockClosed>>
    /\ UNCHANGED outsideBroadcast

\* The client of a connection reads the next message.
ClientReads(ws) ==
    /\ ws \notin sockClosed
    /\ sockBuffer[ws] # <<>>
    /\ received' = [received EXCEPT ![ws] = Append(@, Head(sockBuffer[ws]))]
    /\ sockBuffer' = [sockBuffer EXCEPT ![ws] = Tail(@)]
    /\ UNCHANGED <<bcVia, conns, bcPc, bcIdx, dead, published, sockClosed>>
    /\ UNCHANGED outsideBroadcast

\* The client of a connection goes away.
ClientGone(ws) ==
    /\ ws \notin sockClosed
    /\ sockClosed' = sockClosed \cup {ws}
    /\ sockBuffer' = [sockBuffer EXCEPT ![ws] = <<>>]
    /\ UNCHANGED <<bcVia, conns, bcPc, bcIdx, dead, published, received>>
    /\ UNCHANGED outsideBroadcast

BroadcastNext ==
    \/ Publish
    \/ SendReturns
    \/ SendRaises
    \/ \E ws \in Subscribers : ClientReads(ws)
    \/ \E ws \in Subscribers : ClientGone(ws)

BroadcastSpec == BroadcastInit /\ [][BroadcastNext]_vars

----------------------------------------------------------------------------
\* The Task Store (backend/services/task_store.py): new_task and list_tasks.
\*
\* A task id is a random uuid: new_task may get any id not in use.  time.time()
\* does not have to differ between two calls.

MaxTasks == 3
MaxLimit == 3
MaxWallClock == 2

TaskIds == 1..MaxTasks

\* task_store.py 111-122
StoreInit ==
    /\ storeBackend \in {"memory", "redis"}
    /\ timeline = <<>>
    /\ zset = {}
    /\ wallClock = 0
    /\ created = <<>>
    /\ listLimit = -1
    /\ listed = <<>>
    /\ PipelineInit
    /\ mode = "async"
    /\ PlannerIdle
    /\ BreakerIdle
    /\ ExecutorIdle
    /\ PoolIdle
    /\ BroadcastIdle
    /\ LimiterIdle

\* The wall clock advances.
WallTick ==
    /\ wallClock < MaxWallClock
    /\ wallClock' = wallClock + 1
    /\ UNCHANGED <<storeBackend, timeline, zset, created, listLimit, listed>>
    /\ UNCHANGED outsideStore

\* task_store.py 49-51: append, then a stable sort by decreasing timestamp:
\* the new entry goes behind the entries whose timestamp is not smaller.
AddToTimeline(tl, task_id, score) ==
    LET k == Cardinality({i \in DOMAIN tl : tl[i][1] >= score})
    IN  SubSeq(tl, 1, k) \o <<<<score, task_id>>>> \o SubSeq(tl, k + 1, Len(tl))

\* task_store.py 53-54: self._timeline[:limit]
GetTimeline(tl, limit) ==
    LET n == IF limit >= 0 THEN limit ELSE Len(tl) + limit
        m == IF n < 0 THEN 0 ELSE IF n > Len(tl) THEN Len(tl) ELSE n
    IN  [i \in 1..m |-> tl[i][2]]

\* The members of a sorted set from the highest score down; members with
\* the same score come in decreasing order of the member.
RECURSIVE ZRevOrder(_)
ZRevOrder(z) ==
    IF z = {} THEN <<>>
    ELSE LET top == CHOOSE e \in z :
                       \A f \in z : \/ e[1] > f[1]
                                    \/ e[1] = f[1] /\ e[2] >= f[2]
         IN  <<top>> \o ZRevOrder(z \ {top})

\* task_store.py 80-83: zrevrange("tasks:timeline", 0, limit - 1); a
\* negative stop counts from the end of the set.
ZRevRange(z, limit) ==
    LET ord == ZRevOrder(z)
        stop == IF limit - 1 >= 0 THEN limit - 1 ELSE Len(ord) + limit - 1
        m == IF stop + 1 < 0 THEN 0
             ELSE IF stop + 1 > Len(ord) THEN Len(ord) ELSE stop + 1
    IN  [i \in 1..m |-> ord[i][2]]

\* task_store.py 128-139
NewTask(task_id) ==
    /\ \A i \in DOMAIN created : created[i] # task_id
    /\ created' = Append(created, task_id)
    /\ IF storeBackend = "memory"
       THEN /\ timeline' = AddToTimeline(timeline, task_id, wallClock)
            /\ UNCHANGED zset
       ELSE /\ zset' = zset \cup {<<wallClock, task_id>>}
            /\ UNCHANGED timeline
    /\ listLimit' = -1
    /\ listed' = <<>>
    /\ UNCHANGED <<storeBackend, wallClock>>
    /\ UNCHANGED outsideStore

\* task_store.py 180-188 (routers/tasks.py 46-52)
ListTasks(limit) ==
    /\ listLimit' = limit
    /\ listed' = IF storeBackend = "memory"
                 THEN GetTimeline(timeline, limit)
                 ELSE ZRevRange(zset, limit)
    /\ UNCHANGED <<storeBackend, timeline, zset, wallClock, created>>
    /\ UNCHANGED outsideStore

StoreNext ==
    \/ WallTick
    \/ \E task_id \in TaskIds : NewTask(task_id)
    \/ \E limit \in 0..MaxLimit : ListTasks(limit)

StoreSpec == StoreInit /\ [][StoreNext]_vars

----------------------------------------------------------------------------
\* The Rate Limiter (backend/middleware/rate_limit.py): one token bucket per
\* client ip, consulted by dispatch for every request that is not exempt.

MaxRequests == 6

\* config.py 33-34
max_tasks_per_minute == 10
max_concurrent_tasks == 5

\* One token, in units; the bucket's capacity and its refill per tenth of a
\* second (rate_limit.py 99-102: max_tasks_per_minute / 60.0 tokens a second).
Token == 60 * 10
Capacity == max_concurrent_tasks * Token
RefillRate == max_tasks_per_minute

\* rate_limit.py 75 and 109: 300 and 600 seconds
CleanupInterval == 300 * 10
StaleAfter == 600 * 10

\* The instants at which requests arrive: a burst, a part of a token later,
\* after a cleanup interval, after the stale time.
Instants == {0, 20, CleanupInterval + 100, CleanupInterval + StaleAfter + 200}

\* rate_limit.py 73; a path is the sequence of its pieces
EXEMPT_PREFIXES ==
    {<<"/api", "/health">>, <<"/api", "/auth">>, <<"/api", "/ws">>,
     <<"/docs">>, <<"/openapi.json">>}

Paths ==
    {<<"/api", "/tasks">>, <<"/api">>, <<"/api", "/health">>,
     <<"/api", "/auth", "/login">>, <<"/api", "/ws", "/logs">>}

\* A path is exempt only when it is one of the prefixes itself.
StartsWithWhole(path, prefix) == path = prefix

\* str.startswith
StartsWith(path, prefix) ==
    /\ Len(prefix) <= Len(path)
    /\ SubSeq(path, 1, Len(prefix)) = prefix

\* rate_limit.py 120
IsExempt(path) == \E prefix \in EXEMPT_PREFIXES : StartsWith(path, prefix)

\* rate_limit.py 82-87; forwarded = 0: no X-Forwarded-For header
GetClientIp(forwarded, host) == IF forwarded # 0 THEN forwarded ELSE host

\* rate_limit.py 38-40
NewBucket(t_now) == [tokens |-> Capacity, last_refill |-> t_now]

\* A bucket that is not refilled before the test.
ConsumeNoRefill(bucket, t_now) ==
    [ok |-> bucket.tokens >= Token,
     bucket |-> [tokens |-> IF bucket.tokens >= Token
                            THEN bucket.tokens - Token ELSE bucket.tokens,
                 last_refill |-> t_now]]

\* rate_limit.py 42-52
Consume(bucket, t_now) ==
    LET elapsed == t_now - bucket.last_refill
        grown == bucket.tokens + elapsed * RefillRate
        refilled == IF grown < Capacity THEN grown ELSE Capacity
    IN  [ok |-> refilled >= Token,
         bucket |-> [tokens |-> IF refilled >= Token
                                THEN refilled - Token ELSE refilled,
                     last_refill |-> t_now]]

\* round(num / den, 1) of a time in seconds, as tenths: to the nearest
\* tenth, a half to the even one.
Round1(num, den) ==
    LET q == num \div den
        rem == num % den
    IN  IF 2 * rem > den \/ (2 * rem = den /\ q % 2 = 1) THEN q + 1 ELSE q

\* rate_limit.py 54-59 and 126
BucketRetryAfter(bucket) ==
    IF bucket.tokens >= Token THEN 0
    ELSE Round1(Token - bucket.tokens, RefillRate)

\* rate_limit.py 105-114
CleanupStale(bks, objs, t_now) ==
    [c \in Clients |->
        IF bks[c] # 0 /\ t_now - objs[bks[c]].last_refill > StaleAfter
        THEN 0 ELSE bks[c]]

LimiterInit ==
    /\ monotonic = 0
    /\ buckets = [c \in Clients |-> 0]
    /\ bucketObjs = <<>>
    /\ last_cleanup = 0
    /\ requests = [r \in Slots |-> NoRequest]
    /\ served = <<>>
    /\ PipelineInit
    /\ mode = "async"
    /\ PlannerIdle
    /\ BreakerIdle
    /\ ExecutorIdle
    /\ PoolIdle
    /\ BroadcastIdle
    /\ StoreIdle

\* Time passes.
MonotonicTick ==
    /\ \E t_now \in Instants : t_now > monotonic /\ monotonic' = t_now
    /\ UNCHANGED <<buckets, bucketObjs, last_cleanup, requests, served>>
    /\ UNCHANGED outsideLimiter

\* rate_limit.py 116-144 (with _get_bucket, 89-103): dispatch up to the
\* 429 response or to the call of the next handler.
Dispatch(r, forwarded, host, path) ==
    /\ requests[r].pc # "call_next"
    /\ Len(served) < MaxRequests
    /\ IF IsExempt(path)
       THEN /\ requests' = [requests EXCEPT ![r] =
                   [pc |-> "call_next", path |-> path, client_ip |-> 0,
                    bucket |-> 0, response |-> NoResponse]]
            /\ UNCHANGED <<buckets, bucketObjs, last_cleanup, served>>
       ELSE LET client_ip == GetClientIp(forwarded, host)
                cleanup == monotonic - last_cleanup > CleanupInterval
                kept == IF cleanup
                        THEN CleanupStale(buckets, bucketObjs, monotonic)
                        ELSE buckets
                objs == IF kept[client_ip] = 0
                        THEN Append(bucketObjs, NewBucket(monotonic))
                        ELSE bucketObjs
                b == IF kept[client_ip] = 0 THEN Len(objs) ELSE kept[client_ip]
                c == Consume(objs[b], monotonic)
                retry_after == BucketRetryAfter(c.bucket)
            IN  /\ last_cleanup' = IF cleanup THEN monotonic ELSE last_cleanup
                /\ buckets' = [kept EXCEPT ![client_ip] = b]
                /\ bucketObjs' = [objs EXCEPT ![b] = c.bucket]
                /\ served' = Append(served, [client |-> client_ip,
                                             at |-> monotonic,
                                             admitted |-> c.ok])
                /\ requests' = [requests EXCEPT ![r] =
                      IF c.ok
                      THEN [pc |-> "call_next", path |-> path,
                            client_ip |-> client_ip, bucket |-> b,
                            response |-> NoResponse]
                      ELSE [pc |-> "responded", path |-> path,
                            client_ip |-> client_ip, bucket |-> b,
                            response |->
                              [status |-> 429,
                               headers |->
                                 {<<"Retry-After", (retry_after \div 10) + 1>>,
                                  <<"RateLimit-Limit", max_tasks_per_minute>>,
                                  <<"RateLimit-Remaining", 0>>},
                               retry_after_seconds |-> retry_after]]]
    /\ UNCHANGED monotonic
    /\ UNCHANGED outsideLimiter

\* rate_limit.py 121 and 146-149: the next handler returns its response.
CallNextReturns(r, status_code) ==
    /\ requests[r].pc = "call_next"
    /\ requests' = [requests EXCEPT ![r].pc = "responded", ![r].response =
          [status |-> status_code,
           headers |->
             IF requests[r].bucket = 0 THEN {}
             ELSE {<<"RateLimit-Limit", max_tasks_per_minute>>,
                   <<"RateLimit-Remaining",
                     bucketObjs[requests[r].bucket].tokens \div Token>>},
           retry_after_seconds |-> 0]]
    /\ UNCHANGED <<monotonic, buckets, bucketObjs, last_cleanup, served>>
    /\ UNCHANGED outsideLimiter

\* rate_limit.py 121 and 146: the next handler raises, and so does dispatch.
CallNextRaises(r) ==
    /\ requests[r].pc = "call_next"
    /\ requests' = [requests EXCEPT ![r].pc = "raised"]
    /\ UNCHANGED <<monotonic, buckets, bucketObjs, last_cleanup, served>>
    /\ UNCHANGED outsideLimiter

LimiterNext ==
    \/ MonotonicTick
    \/ \E r \in Slots, forwarded \in {0} \cup Clients, host \in Clients,
          path \in Paths : Dispatch(r, forwarded, host, path)
    \/ \E r \in Slots : CallNextReturns(r, 200)
    \/ \E r \in Slots : CallNextRaises(r)

LimiterSpec == LimiterInit /\ [][LimiterNext]_vars

----------------------------------------------------------------------------
\* Properties.

\* The steps a step depends on, directly or through other steps.
RECURSIVE Reach(_, _)
Reach(S, n) ==
    IF n = 0 THEN S
    ELSE Reach(S \cup UNION {plan[d] : d \in S \cap DOMAIN plan}, n - 1)

TransDeps(s) == Reach(plan[s], Len(plan))

NumWith(st) == Cardinality({s \in DOMAIN plan : stepStatus[s] = st})

\* execute() has just returned: the steps are as it left them.
DagReturned == pc \in {"degrade", "finalize"}

\* C1: a step is marked running only after every step it depends on has
\* been marked completed: started_at of the step >= finished_at of the
\* dependency.
C1_DependencyOrder ==
    \A s \in DOMAIN plan :
        stepStatus[s] \in {"running", "completed", "failed"} =>
            \A d \in plan[s] \cap DOMAIN plan :
                /\ stepStatus[d] = "completed"
                /\ finished_at[d] > 0
                /\ started_at[s] >= finished_at[d]

\* A step with two dependencies is running, both dependencies completed.
C1_Witness ==
    \E s \in DOMAIN plan :
        /\ stepStatus[s] = "running"
        /\ Cardinality(plan[s]) = 2
        /\ \A d \in plan[s] : d \in DOMAIN plan /\ stepStatus[d] = "completed"

\* C2: when execute() returns, every step with a failed or skipped
\* transitive dependency is skipped with error "dependency failed".
C2_SkipCascade ==
    DagReturned =>
        \A s \in DOMAIN plan :
            (\E d \in TransDeps(s) \cap DOMAIN plan :
                stepStatus[d] \in {"failed", "skipped"})
            => stepStatus[s] = "skipped" /\ stepError[s] = "dependency failed"

\* A step all of whose transitive dependencies are steps of the plan, none of
\* them on a dependency cycle, and none of them failed.
Isolated(s) ==
    /\ TransDeps(s) \subseteq DOMAIN plan
    /\ \A d \in TransDeps(s) \cup {s} : d \notin TransDeps(d)
    /\ \A d \in TransDeps(s) : stepStatus[d] # "failed"

\* C3: when execute() returns, every step that does not depend on a failed
\* step has been launched and has ended completed or failed as its own
\* execute_step result says, whatever failed beside it.
C3_BranchIsolation ==
    DagReturned =>
        \A s \in DOMAIN plan :
            Isolated(s) =>
                /\ worker[s] \in {"ok", "fail"}
                /\ stepStatus[s] = IF worker[s] = "ok" THEN "completed" ELSE "failed"

\* A step failed while another was running, and that one completed later.
C3_Witness ==
    /\ DagReturned
    /\ \E a, b \in DOMAIN plan :
        /\ stepStatus[a] = "failed"
        /\ stepStatus[b] = "completed"
        /\ Isolated(b)
        /\ started_at[b] < finished_at[a]
        /\ finished_at[a] < finished_at[b]

\* C4: the counts returned by execute() are the numbers of steps whose final
\* status is completed, failed and skipped, and they add up to total.
C4_SummaryCounts ==
    DagReturned =>
        /\ summary.completed = NumWith("completed")
        /\ summary.failed = NumWith("failed")
        /\ summary.skipped = NumWith("skipped")
        /\ summary.total = summary.completed + summary.failed + summary.skipped

\* C5: once the task's status is terminal it never changes again.
C5_TerminalIsFinal == [][(status \in Terminal) => (status' = status)]_vars

\* C6: a task that has reached a terminal status when run_task returns had
\* exactly one task_done emitted, as its last event, and its subscriber has
\* observed it.
C6_OneTaskDone ==
    (pc = "returned" /\ status \in Terminal) =>
        /\ doneEmitted = 1
        /\ lastEvent = "task_done"
        /\ doneObserved = 1

\* C7: after an exception in run_task the task is failed with the error
\* recorded, a task_done has been emitted and the pool has been shut down.
C7_FaultFloor ==
    (raisedInTry /\ pc \in {"returned", "raised"}) =>
        /\ status = "failed"
        /\ error = "exception"
        /\ doneEmitted >= 1
        /\ shutdowns = 1

FirstAllFailed == firstSummary.completed = 0 /\ firstSummary.failed > 0

\* C8: a second plan is requested exactly when the first execution ended
\* with completed = 0 and failed > 0; it is executed once; there is at most
\* one re-plan.
C8_ReplanOnce ==
    /\ replans <= 1
    /\ executions <= 2
    /\ replans = 1 => FirstAllFailed
    /\ executions = 2 => replans = 1
    /\ (~raisedInTry /\ pc \in {"finalize", "format", "task_done", "returned"}) =>
        /\ replans = 1 <=> FirstAllFailed
        /\ executions = replans + 1

\* The second plan failed entirely as well, and run_task returned.
C8_Witness ==
    /\ pc = "returned"
    /\ ~raisedInTry
    /\ replans = 1
    /\ executions = 2
    /\ summary.completed = 0
    /\ summary.failed > 0

\* C9, as the code has it: at finalization the status is failed if no step
\* completed, completed if some step completed and none failed, partial if
\* some completed and some failed.
C9_FinalStatus ==
    pc = "format" =>
        status = IF NumWith("completed") = 0 THEN "failed"
                 ELSE IF NumWith("failed") = 0 THEN "completed"
                 ELSE "partial"

\* Finalization of a plan none of whose steps completed or failed.
C9_Witness ==
    /\ pc = "format"
    /\ Len(plan) > 0
    /\ NumWith("completed") = 0
    /\ NumWith("failed") = 0
    /\ status = "failed"

\* C9 as stated: completed if there are no failures, partial if at least one
\* step completed and one failed, failed if no step completed.
C9_AsStated ==
    pc = "format" =>
        /\ NumWith("failed") = 0 => status = "completed"
        /\ (NumWith("completed") > 0 /\ NumWith("failed") > 0) => status = "partial"
        /\ NumWith("completed") = 0 => status = "failed"

\* C10: at a scheduler loop boundary reached with the task cancelled, no
\* step is launched.
C10_NoLaunchAfterCancel ==
    [][(status = "cancelled" /\ pc = "step_event" /\ done = {}) =>
        \A s \in DOMAIN worker : worker[s] = "none" => worker'[s] = "none"]_vars

\* run_task has ended: it returned, raised, or was cancelled.
Exited == pc \in {"returned", "raised", "cancelled"}

\* C11: when run_task has ended, by returning, by raising or by being
\* cancelled, it has called shutdown() on its pool.
C11_PoolShutdown == Exited => shutdowns = 1

\* run_task was cancelled while execute() was waiting for a worker.
C11_Witness ==
    /\ pc = "cancelled"
    /\ shutdowns = 1
    /\ \E s \in DOMAIN worker : worker[s] \in {"created", "executing"}

\* C12: once the pool's shutdown has begun, no step worker of the task is
\* still in flight.
C12_NoWorkerAtShutdown ==
    shutdowns >= 1 => \A s \in DOMAIN worker : worker[s] \notin {"created", "executing"}

StepEventKinds == {"step_started", "step_completed", "step_failed"}

\* The event kinds that may come next after an event of kind a, when r
\* re-plans have been made.
EventFollows(a, b, r) ==
    CASE a = "none" -> b = "planning_started"
      [] a = "planning_started" -> b = "planning_reasoning"
      [] a = "planning_reasoning" -> b = "plan_ready"
      [] a \in {"plan_ready", "plan_ready is_replan"} ->
            b \in StepEventKinds \cup {"task_done"}
      [] a \in StepEventKinds ->
            \/ b \in StepEventKinds \cup {"task_done"}
            \/ b = "replanning" /\ r = 0
      [] a = "replanning" -> b = "plan_ready is_replan"
      [] OTHER -> FALSE

\* C13: in a run without a pipeline exception the events come in the order
\* planning_started, planning_reasoning, plan_ready, step events, then
\* possibly replanning, plan_ready flagged is_replan, step events, and at the
\* end one task_done, after which no event is emitted.
C13_EventOrder ==
    [][(~raisedInTry' /\ pc' \notin {"cancelling", "cancelled"}) =>
        /\ (lastEvent' # lastEvent) => EventFollows(lastEvent, lastEvent', replans)
        /\ doneEmitted' <= 1
        /\ (lastEvent = "task_done") => UNCHANGED <<lastEvent, stepEvents>>
        /\ (pc' = "returned") => (lastEvent' = "task_done" /\ doneEmitted' = 1)]_vars

\* A run with a re-plan has returned, a step of the second plan completed.
C13_Witness ==
    /\ pc = "returned"
    /\ ~raisedInTry
    /\ replans = 1
    /\ lastEvent = "task_done"
    /\ \E s \in DOMAIN stepEvents :
        stepStatus[s] = "completed" /\ stepEvents[s].final = 1

\* C14: a step's step_completed / step_failed comes after its step_started
\* and at most once; when execute() returns every launched step has had
\* exactly one; the completion events of different steps come in the order
\* in which the scheduler recorded the completions.
C14_StepEventOrder ==
    /\ \A s \in DOMAIN stepEvents :
        /\ stepEvents[s].started <= 1
        /\ stepEvents[s].final <= 1
        /\ stepEvents[s].final = 1 => stepEvents[s].started = 1
    /\ DagReturned =>
        \A s \in DOMAIN worker :
            worker[s] # "none" => stepEvents[s].started = 1 /\ stepEvents[s].final = 1
    /\ \A a, b \in DOMAIN stepEvents :
        (stepEvents[a].final = 1 /\ stepEvents[b].final = 1
            /\ finished_at[a] < finished_at[b])
        => stepEvents[a].at < stepEvents[b].at

\* execute() returned after a step failed and another completed later.
C14_Witness ==
    /\ DagReturned
    /\ \E a, b \in DOMAIN stepEvents :
        /\ stepStatus[a] = "failed"
        /\ stepStatus[b] = "completed"
        /\ stepEvents[a].final = 1
        /\ stepEvents[b].final = 1
        /\ stepEvents[a].at < stepEvents[b].at

\* _steps_from_raw returned a plan, which run_task installs and executes.
Accepted == plannerOp # "none" /\ plannerError = "none"

StepDeps(i) == {steps[i].depends_on[j] : j \in DOMAIN steps[i].depends_on}

\* The steps reached from the steps of S along depends_on in at most n hops.
RECURSIVE StepReach(_, _)
StepReach(S, n) ==
    IF n = 0 THEN S
    ELSE StepReach(S \cup UNION {StepDeps(d) : d \in S \cap DOMAIN steps}, n - 1)

\* C15: the dependency graph of every plan the Planner Adapter returns is
\* acyclic: no step depends on itself, directly or through other steps.
C15_AcceptedPlanAcyclic ==
    Accepted => \A i \in DOMAIN steps : i \notin StepReach(StepDeps(i), Len(steps))

\* C16: every entry of every depends_on of a returned plan is the id of a
\* step of that plan.
C16_DepsResolve ==
    Accepted => \A i \in DOMAIN steps : StepDeps(i) \subseteq {steps[k].id : k \in DOMAIN steps}

\* C17: in a returned plan a navigate, search, extract, click or fill step
\* has executor browser, and a compare, analyze, rank or summarize step has
\* executor llm.
C17_ExecutorByAction ==
    Accepted =>
        \A i \in DOMAIN steps :
            /\ steps[i].action \in BrowserActions => steps[i].executor = "browser"
            /\ steps[i].action \in LlmActions => steps[i].executor = "llm"

\* C18: from a closed breaker with failure counter 0, the breaker is still
\* closed after each of the first failure_threshold - 1 consecutive failures
\* and becomes open at the failure_threshold-th.
C18_OpensAtThreshold ==
    [][(cbState = "closed" /\ failure_count' = failure_count + 1) =>
        /\ streak' = streak + 1
        /\ streak' < failure_threshold => cbState' = "closed"
        /\ streak' = failure_threshold => cbState' = "open"
        /\ streak' <= failure_threshold]_vars

\* The breaker has just opened at the second of two consecutive failures.
C18_Witness ==
    /\ lastOp = [op |-> "failure", was |-> "closed", count |-> 1]
    /\ failure_threshold = 2
    /\ streak = 2
    /\ cbState = "open"

\* C19: a call that completes successfully while the breaker is closed
\* leaves it closed with failure counter 0, so that the failures recorded
\* before it do not count towards the threshold.
C19_SuccessResets ==
    [][(cbState = "closed" /\ success_count' = success_count + 1) =>
        /\ cbState' = "closed"
        /\ failure_count' = 0
        /\ streak' = 0]_vars

\* A success on a closed breaker that had recorded a failure.
C19_Witness ==
    /\ lastOp = [op |-> "success", was |-> "closed", count |-> 1]
    /\ cbState = "closed"
    /\ failure_count = 0

\* C20: an entry made while the breaker is open and less than
\* recovery_timeout has elapsed since the last recorded failure raises
\* CircuitOpenError with retry_after = recovery_timeout - (now -
\* last_failure_time); the caller does not reach the guarded body and the
\* breaker is left as it was.
C20_OpenFailsFast ==
    [][\A c \in Callers :
        (/\ cbState = "open"
         /\ cbCaller[c].at = "idle"
         /\ cbCaller'[c].at # "idle"
         /\ now' - last_failure_time < recovery_timeout)
        => /\ cbCaller'[c] = CircuitOpenError(recovery_timeout - (now' - last_failure_time))
           /\ UNCHANGED <<cbState, failure_count, success_count, last_failure_time,
                          permits>>]_vars

\* A caller holds a CircuitOpenError with retry_after 1 of a timeout of 2,
\* raised while another caller was inside the guarded body.
C20_Witness ==
    /\ cbState = "open"
    /\ recovery_timeout = 2
    /\ now - last_failure_time = 1
    /\ lastOp.op = "enter"
    /\ lastOp.was = "open"
    /\ \E c, d \in Callers :
        /\ cbCaller[c] = CircuitOpenError(1)
        /\ cbCaller[d].at = "body"

InBody == {c \in Callers : cbCaller[c].at = "body"}

\* C21: while the breaker is half_open, at most half_open_max callers are
\* inside the guarded body, whatever state they entered in.
C21_HalfOpenLimit ==
    cbState = "half_open" => Cardinality(InBody) <= half_open_max

\* C22: when a call that was admitted while the breaker was half_open
\* succeeds, the breaker becomes closed with failure counter 0; when it
\* fails, the breaker becomes open.
C22_ProbeDecides ==
    [][\A c \in Callers :
        (/\ cbCaller[c].at = "body"
         /\ cbCaller[c].entered = "half_open"
         /\ cbCaller'[c].at = "idle")
        => /\ (success_count' = success_count + 1)
                => (cbState' = "closed" /\ failure_count' = 0)
           /\ (failure_count' = failure_count + 1) => (cbState' = "open")]_vars

\* The attempt that has just ended, in a step of execute_step.
AttemptEnds == Len(outcomes') = Len(outcomes) + 1

\* C23: every attempt of execute_step that calls an external service (the
\* browser agent, the LLM) is made inside that service's circuit breaker:
\* the breaker is not open when the call is made, and the breaker records
\* the attempt's success or its failure.
C23_AttemptsGuarded ==
    [][(AttemptEnds /\ Backend \in External)
       => /\ StateProperty(now) # "open"
          /\ (outcomes'[Len(outcomes')] = Ok)
                => (success_count' = success_count + 1)
          /\ (outcomes'[Len(outcomes')] # Ok)
                => (failure_count' = failure_count + 1)]_vars

\* The outcome of the attempt that has just ended.
LastOutcome == outcomes'[Len(outcomes')]

C25_BoundedRetries ==
    /\ Len(outcomes) <= max_retries + 1
    /\ attempt \in 0..max_retries
    /\ \A i \in 1..(Len(outcomes) - 1) : outcomes[i] # Ok
    /\ sleeps = SubSeq(<<1, 2, 4, 8, 16>>, 1, Len(sleeps))
    /\ Len(sleeps) <= max_retries
    /\ exPc = "call" => (Len(outcomes) = attempt /\ Len(sleeps) = attempt)
    /\ exPc = "sleep" => (Len(outcomes) = attempt + 1 /\ Len(sleeps) = attempt + 1)
    /\ exPc = "returned" => (Len(outcomes) = attempt + 1 /\ Len(sleeps) = attempt)

\* Every attempt failed with a retryable error, the budget is used up and
\* the waits were 1 and 2 seconds.
C25_Witness ==
    /\ exPc = "returned"
    /\ max_retries = 2
    /\ Len(outcomes) = 3
    /\ sleeps = <<1, 2>>
    /\ result.success = FALSE

\* C26: an attempt that fails with an error whose kind name contains
\* ExceededMaxSteps is the last attempt of the step, whatever is left of the
\* retry budget, and execute_step returns a failure.
C26_ExceededMaxStepsNotRetried ==
    [][(AttemptEnds /\ Contains(LastOutcome.kind, <<"ExceededMaxSteps">>))
       => /\ exPc' = "returned"
          /\ sleeps' = sleeps
          /\ result'.success = FALSE]_vars

\* The first attempt of a step with retries left failed with
\* ActExceededMaxStepsError and execute_step has returned.
C26_Witness ==
    /\ exPc = "returned"
    /\ max_retries = 2
    /\ Len(outcomes) = 1
    /\ outcomes[1].kind = <<"Act", "ExceededMaxSteps", "Error">>

\* C27: an attempt whose backend call raises never ends execute_step with
\* that exception: the coroutine goes on to its backoff or returns, and when
\* it returns after failed attempts only, the result is success false with
\* the error text "<kind>: <message>" of the last error.
C27_ReturnsFailureResult ==
    [][(AttemptEnds /\ LastOutcome # Ok)
       => /\ exPc' \in {"sleep", "returned"}
          /\ (exPc' = "returned")
                => result' = [success |-> FALSE,
                              error |-> LastOutcome.kind
                                          \o <<": ", LastOutcome.message>>]]_vars

\* Two attempts failed with different errors and the result names the second.
C27_Witness ==
    /\ exPc = "returned"
    /\ Len(outcomes) = 2
    /\ outcomes[1] = [kind |-> <<"Runtime", "Error">>, message |-> "m1"]
    /\ outcomes[2] = [kind |-> <<"Circuit", "Open", "Error">>, message |-> "m2"]
    /\ result = [success |-> FALSE,
                 error |-> <<"Circuit", "Open", "Error", ": ", "m2">>]

\* The sessions the pool holds.
Held == {sessions[d] : d \in Domains} \ {0}

\* C28: the pool never holds more than max_sessions sessions at a time.
C28_SessionsBounded == Cardinality(Held) <= poolMax

\* The browser-agent instances the running browser steps are using.
InUse == {stepAgent[w].agent : w \in BrowserSteps} \ {0}

\* C29: the browser steps of a task that run at the same time never use
\* more browser-agent instances than the pool's capacity.
C29_BrowsersBounded == Cardinality(InUse) <= poolMax

\* shutdown() has not been called.
NoShutdown == shutPc = "idle" /\ poolShutdowns = 0

\* C30: as long as the pool is not shut down, the session of a domain is
\* created once, and every acquire that returns a session for the domain
\* returns that one, however the acquire calls overlap.
C30_OneSessionPerDomain ==
    [][(NoShutdown /\ NoShutdown')
       => /\ \A d \in Domains : sessions[d] # 0 => sessions'[d] = sessions[d]
          /\ \A c \in PoolCallers :
                (poolCaller'[c].at = "holding" /\ poolCaller'[c].got # 0)
                   => poolCaller'[c].got = sessions'[poolCaller'[c].domain]]_vars

\* Two overlapping acquire calls for one domain have both returned the one
\* session the pool created.
C30_Witness ==
    /\ NoShutdown
    /\ \E c1, c2 \in PoolCallers :
          /\ c1 # c2
          /\ poolCaller[c1].at = "holding"
          /\ poolCaller[c2].at = "holding"
          /\ poolCaller[c1].domain = poolCaller[c2].domain
          /\ poolCaller[c1].got # 0
          /\ poolCaller[c1].got = poolCaller[c2].got
    /\ active_count = 1

\* A call admitted while the breaker was half_open leaves the guarded body.
ProbeExits ==
    \E c \in Callers : /\ cbCaller[c].at = "body"
                       /\ cbCaller[c].entered = "half_open"
                       /\ cbCaller'[c].at = "idle"

\* Some call leaves the guarded body.
CallExits ==
    \E c \in Callers : cbCaller[c].at = "body" /\ cbCaller'[c].at = "idle"

\* C35: the breaker's state changes only from closed to open when the
\* failure count reaches failure_threshold, from open to half_open when
\* recovery_timeout has elapsed since the last failure, from half_open to
\* closed on a successful probe, from half_open to open on a failed probe,
\* and from any state to closed with counter 0 by reset; an exit while the
\* breaker is open leaves it open.
C35_Transitions ==
    [][/\ (cbState' # cbState)
            => \/ /\ cbState = "closed" /\ cbState' = "open"
                  /\ failure_count' = failure_count + 1
                  /\ failure_count' >= failure_threshold
               \/ /\ cbState = "open" /\ cbState' = "half_open"
                  /\ now - last_failure_time >= recovery_timeout
               \/ /\ cbState = "half_open" /\ cbState' = "closed"
                  /\ ProbeExits
                  /\ success_count' = success_count + 1
               \/ /\ cbState = "half_open" /\ cbState' = "open"
                  /\ ProbeExits
                  /\ failure_count' = failure_count + 1
               \/ /\ cbState' = "closed" /\ failure_count' = 0
                  /\ cbCaller' = cbCaller
                  /\ success_count' = success_count
       /\ (cbState = "open" /\ CallExits) => cbState' = "open"]_vars

\* The calls admitted as half-open probes that are in the guarded body.
ProbesInFlight ==
    {c \in Callers : cbCaller[c].at = "body" /\ cbCaller[c].entered = "half_open"}

\* C38: an entry made while the breaker is half_open and no admitted probe
\* is in flight is admitted as a probe (the probe slots are neither leaked
\* nor released twice).
C38_ProbeAdmitted ==
    [][\A c \in Callers :
          (/\ cbCaller[c].at = "idle"
           /\ cbCaller'[c].at # "idle"
           /\ cbState' = "half_open"
           /\ ProbesInFlight = {})
          => cbCaller'[c] = Body("half_open")]_vars

\* C39: when shutdown() returns, every session the pool held has been
\* closed and the pool holds none, also when an acquire created a session
\* while shutdown() was closing the others.
C39_ShutdownClosesAll ==
    [][(poolShutdowns' = poolShutdowns + 1)
       => /\ Held \subseteq closedSessions'
          /\ \A d \in Domains : sessions'[d] = 0]_vars

\* The changes of status a step can make.
StepTransitions == {<<"pending", "running">>, <<"running", "completed">>,
                    <<"running", "failed">>, <<"pending", "skipped">>}

\* C36: within one execution of a plan, a step's status changes only
\* pending -> running, running -> completed, running -> failed or
\* pending -> skipped, and the scheduler launches a step only if it has not
\* launched it before.
C36_StepTransitions ==
    [][(DOMAIN stepStatus' = DOMAIN stepStatus /\ replans' = replans)
       => /\ \A s \in DOMAIN stepStatus :
                stepStatus'[s] # stepStatus[s]
                   => <<stepStatus[s], stepStatus'[s]>> \in StepTransitions
          /\ \A s \in running' \ running :
                /\ worker[s] = "none"
                /\ stepStatus[s] = "pending"]_vars

\* One execution has left a completed, a failed and a skipped step.
C36_Witness ==
    /\ DagReturned
    /\ \E s, t, u \in DOMAIN plan :
          /\ stepStatus[s] = "completed"
          /\ stepStatus[t] = "failed"
          /\ stepStatus[u] = "skipped"

\* C37: when execute() returns, every step of the plan is completed,
\* failed or skipped.
C37_NoStepLeftBehind ==
    DagReturned =>
        \A s \in DOMAIN plan : stepStatus[s] \in {"completed", "failed", "skipped"}

\* The positions of the driver inside DAGExecutor.execute.
DagPcs == {"schedule", "wait", "process", "step_event", "summary"}

\* C40: if every execute_step call returns, every call of
\* DAGExecutor.execute ends, and every run of run_task that is not
\* cancelled emits task_done and reaches a terminal task status.
C40_Terminates ==
    /\ [](pc \in DagPcs => <>(pc \notin DagPcs))
    /\ <>(\/ pc \in {"cancelling", "cancelled"}
          \/ doneEmitted >= 1 /\ status \in Terminal)

\* The producer is suspended in a send_text to a client that does not read.
ProducerBlocked ==
    /\ bcPc = "sending"
    /\ conns[bcIdx] \notin sockClosed
    /\ Len(sockBuffer[conns[bcIdx]]) >= MaxBuffer

\* The events 1..n in the order they were published.
UpTo(n) == [i \in 1..n |-> i]

\* C33: the producer is never held up by a subscriber that is slow or has
\* failed, and every other subscriber gets every event in the order of
\* publication.
C33_ProducerNeverBlocked ==
    /\ ~ProducerBlocked
    /\ \A i \in DOMAIN conns :
          conns[i] \notin sockClosed
             => received[conns[i]] \o sockBuffer[conns[i]]
                   \in {UpTo(published), UpTo(published - 1)}

\* The last n elements of a sequence, the last one first.
NewestFirst(seq, n) ==
    [i \in 1..(IF n < Len(seq) THEN n ELSE Len(seq)) |-> seq[Len(seq) + 1 - i]]

\* C34: list_tasks(limit) returns the min(limit, number of tasks) tasks
\* created last, the newest first, whatever their creation timestamps.
C34_NewestFirst ==
    listLimit >= 0 => listed = NewestFirst(created, listLimit)

\* What the refill makes of the bucket of a client at the present time; a
\* client without a bucket gets a full one.
Refilled(c) ==
    IF buckets[c] = 0 THEN Capacity
    ELSE LET bucket == bucketObjs[buckets[c]]
             grown == bucket.tokens + (monotonic - bucket.last_refill) * RefillRate
         IN  IF grown < Capacity THEN grown ELSE Capacity

\* The decisions on the requests of a client that came at the instant of
\* its first request, when its bucket was full.
FirstBurst(c) ==
    LET mine == SelectSeq(served, LAMBDA e : e.client = c)
    IN  IF mine = <<>> THEN <<>>
        ELSE SelectSeq(mine, LAMBDA e : e.at = mine[1].at)

\* The limiter has decided on one more request in this step.
Decided == Len(served') = Len(served) + 1

\* C31: a request is admitted, and one token is taken from the refilled
\* bucket, iff the refilled bucket min(capacity, tokens + elapsed * rate)
\* holds a token; otherwise it gets a 429, the bucket keeps the refilled
\* tokens and retry_after is (1 - tokens) / rate (to the tenth of a second
\* the response gives).  Of the requests of a burst on a full bucket of
\* capacity N exactly the first N are admitted.
C31_TokenBucket ==
    /\ [][Decided =>
            LET e == served'[Len(served')]
                bucket == bucketObjs'[buckets'[e.client]]
                before == Refilled(e.client)
            IN  /\ e.admitted <=> before >= Token
                /\ bucket.tokens = IF e.admitted THEN before - Token ELSE before
                /\ \E r \in Slots :
                      /\ requests'[r] # requests[r]
                      /\ IF e.admitted
                         THEN requests'[r].pc = "call_next"
                         ELSE LET response == requests'[r].response
                                  diff == response.retry_after_seconds * RefillRate
                                             - (Token - before)
                              IN  /\ requests'[r].pc = "responded"
                                  /\ response.status = 429
                                  /\ 2 * diff <= RefillRate
                                  /\ 2 * diff >= -RefillRate]_vars
    /\ [](\A c \in Clients : \A k \in DOMAIN FirstBurst(c) :
             FirstBurst(c)[k].admitted <=> k <= max_concurrent_tasks)

\* A burst of N + 1 requests on a full bucket has got its 429, with a whole
\* token to wait for.
C31_Witness ==
    \E c \in Clients, r \in Slots :
        /\ Len(FirstBurst(c)) = max_concurrent_tasks + 1
        /\ requests[r].client_ip = c
        /\ requests[r].response.status = 429
        /\ requests[r].response.retry_after_seconds * RefillRate = Token

\* The paths of the health probe, of the auth endpoints and of the
\* streaming upgrades.
ExemptPaths ==
    {path \in Paths : /\ Len(path) >= 2
                      /\ path[1] = "/api"
                      /\ path[2] \in {"/health", "/auth", "/ws"}}

HeaderNames(response) == {h[1] : h \in response.headers}

====
